---- MODULE Spec2Model ----
(***************************************************************************)
(* BioHarness vitals simulator: the simulation engine                      *)
(* (simulation_engine.py), the value generator (vitals_generator.py) and   *)
(* the broadcaster with its retrying send (data_broadcaster.py).           *)
(*                                                                         *)
(* The specifications share the variables:                                 *)
(*   Spec / FairSpec  the engine: its setters, start/stop and the          *)
(*                    generation loop threads;                             *)
(*   NotifySpec       the engine called on demand while callbacks are      *)
(*                    registered and removed;                              *)
(*   OnDemandSpec     the generation loop next to on-demand calls of       *)
(*                    generate_single_vital_signs_reading;                 *)
(*   GenSpec          the value generator and its override table;          *)
(*   FloatRangeSpec   the override table under every float, NaN included;  *)
(*   SendSpec / FairSendSpec                                               *)
(*                    the broadcaster's dispatch and the retrying send;    *)
(*   ReconfigureSpec  the dispatch while the destinations' URLs and flags  *)
(*                    are changed;                                         *)
(*   UrgencySpec      the rule-engine client's urgency flag;               *)
(*   FreshSpec        get_most_recent_vital_signs next to generation;      *)
(*   SnapshotSpec     the remaining setters and the configuration          *)
(*                    snapshot;                                            *)
(*   LockSpec         _thread_safety_lock: the engine's methods statement  *)
(*                    by statement, run by the loop thread and a caller;   *)
(*   TimingSpec       the generation loop with sinks that take time;       *)
(*   ModeSpec         the reads of the mode in one generate call next to   *)
(*                    set_simulation_mode;                                 *)
(*   SubmitSpec       the rule-engine client's submissions.                *)
(***************************************************************************)
EXTENDS Integers, Sequences, FiniteSets, TLC

(***************************************************************************)
(* Bounds of the model.                                                    *)
(***************************************************************************)
MaxWorkers == 2        \* loop threads that can be alive at the same time
MaxReadings == 2       \* readings created in one behaviour
MaxSinks == 2          \* length of the callback list
MaxIntervalInput == 2  \* largest argument given to set_data_generation_interval
SampleStep == 250      \* distance of two values drawn next to an end of a range
EdgeSamples == 2       \* values drawn next to each end of a range, after the end
MaxSinkSeconds == 2    \* seconds the sinks of one notification can take

(***************************************************************************)
(* Program constants.                                                      *)
(***************************************************************************)
DEFAULT_SIMULATION_INTERVAL_SECONDS == 10
MINIMUM_SIMULATION_INTERVAL_SECONDS == 1
LOOP_ERROR_PAUSE_SECONDS == 1
Tenth == 1000          \* round(value, 1): one decimal place, in fixed point

Workers == 1..MaxWorkers
Caller == 0
Threads == Workers \cup {Caller}

\* The sinks of the program: the HTTP server's broadcasting callback, which
\* catches everything it raises, and main.py's logging callback, which does not.
BroadcastSink == "broadcast"
LogSink == "log"
Sinks == {BroadcastSink, LogSink}

\* What one invocation of a sink can end in.
SinkOutcomes(s) ==
    IF s = BroadcastSink THEN {"delivered", "delivery_failed"}
                         ELSE {"returned", "raised"}

IntervalInputs == (0 - 1)..MaxIntervalInput

\* How a call of start, stop or a setter ended: the operation, its argument
\* (0 when it has none), the running flag it found, what it returned (FALSE
\* when it returns nothing), whether it raised, and whether it changed the
\* field it is about.
Call(op, arg, wasRunning, r, raised, changed) ==
    [op |-> op, arg |-> arg, wasRunning |-> wasRunning, ret |-> r,
     raised |-> raised, changed |-> changed]

NoCall == Call("none", 0, FALSE, FALSE, FALSE, FALSE)

\* A call that adds or removes a callback: also the callback it was given and
\* the list it found.
SinkCall(op, s, before, r, changed) ==
    [op |-> op, arg |-> 0, wasRunning |-> FALSE, ret |-> r, raised |-> FALSE,
     changed |-> changed, sink |-> s, before |-> before]

VARIABLES
    \* ---- PatientVitalsSimulationEngine fields
    interval,      \* _data_generation_interval_seconds
    running,       \* _is_continuous_simulation_running
    latest,        \* _most_recent_vital_signs: a reading id, 0 for None
    callbacks,     \* _data_broadcasting_callbacks: a sequence of sinks
    \* ---- threads: the loop threads and the on-demand caller
    pc,            \* where each thread stands
    rd,            \* the reading the thread's generate call has created (0: none)
    idx,           \* the list index of the thread's notification loop
    exc,           \* an exception is propagating out of the thread's generate call
    ret,           \* what the thread's generate call returned (0: nothing yet)
    sleepDur,      \* the argument the thread's time.sleep was called with
    elapsed,       \* seconds the thread has slept
    \* ---- the clock of readings
    nextId,        \* the id (creation time) of the next reading
    \* ---- observations
    lastCall,      \* the last call of start/stop/a setter and how it ended
    invoked,       \* per thread, the sinks its current notification has invoked
    raisedIn,      \* per thread, the sinks that raised in its current notification
    cbSnap,        \* per thread, the callback list when its notification began
    cbChanged,     \* per thread, the list was changed while it was notifying
    stored,        \* per thread, the reading it has stored as latest in this call
    sawRunning,    \* per thread, the flag the loop read at its last check
    intervalAtSleep, \* per thread, the interval field when its sleep began
    changedInSleep,  \* per thread, the interval was changed during its sleep
    \* ---- VitalSignsValueGenerator
    custom,        \* _custom_vital_ranges: per vital type a range or NoRange
    sample,        \* the last value generate_vital_sign_value returned
    genCall,       \* the last call on the override table and how it ended
    \* ---- VitalSignsDataBroadcaster fields
    ruleUrl,       \* _rule_engine_endpoint_url
    uiUrl,         \* _ui_endpoint_url
    ruleEnabled,   \* _is_rule_engine_broadcasting_enabled
    uiEnabled,     \* _is_ui_broadcasting_enabled
    \* ---- the thread that broadcasts or tests the connectivity
    bpc,           \* where it stands
    results,       \* broadcasting_results
    frame,         \* the frame of its call of the retrying send
    sendResult,    \* what that call returned
    \* ---- observations of the send
    outcomes,      \* what each requests.post of the call ended in, in order
    waited,        \* seconds the call has slept between attempts
    posted,        \* the URLs POSTed to since the broadcast or test began
    sawRule,       \* the rule engine flag as the broadcast read it
    sawUi,         \* the UI flag as the broadcast read it
    flagsChanged,  \* a flag was changed while the broadcast was under way
    uiAtBegin,     \* the UI's flag and URL when the broadcast read its first flag
    \* ---- RuleEngineIntegrationClient
    urgency,       \* the reading _determine_urgency_level is called with, and
                   \* what the call returned
    submission,    \* the payload submit_vital_signs_for_rule_evaluation built
                   \* for that reading and the body it gave to the POST
    \* ---- PatientVitalsSimulationEngine, the rest of its configuration
    current_simulation_mode,      \* _current_simulation_mode
    target_patient_identifier,    \* _target_patient_identifier
    monitoring_device_identifier, \* _monitoring_device_identifier
    \* ---- a caller of get_current_simulator_configuration
    snapshot,      \* the SimulatorConfiguration object it holds
    \* ---- _thread_safety_lock and the threads that run the engine's methods
    lock_holders,  \* the threads that hold the lock (at most one)
    at,            \* per thread, the method it is in and its next statement
    \* ---- the time the sinks take
    sinkSeconds,   \* per thread, seconds its sinks have run since it created
                   \* its reading
    \* ---- a call of generate_single_vital_signs_reading, read by read
    reading_modes, \* the mode each sampled vital was read with, and the mode
                   \* field of the reading once it is assembled
    \* ---- observations of a generate call
    call_sinks,    \* per thread, the callback list when its generate call
                   \* began and the sinks removed since then
    after_stop     \* whether stop() has returned True with no start() since,
                   \* and the cycles the loop threads have begun since then

engineVars == <<interval, running, latest, callbacks, pc, rd, idx, exc, ret,
                sleepDur, elapsed, nextId, lastCall, invoked,
                raisedIn, cbSnap, cbChanged, stored, sawRunning,
                intervalAtSleep, changedInSleep>>

genVars == <<custom, sample, genCall>>

sendVars == <<ruleUrl, uiUrl, ruleEnabled, uiEnabled, bpc, results, frame,
              sendResult, outcomes, waited, posted, sawRule, sawUi,
              flagsChanged, uiAtBegin>>

clientVars == <<urgency, submission>>

configVars == <<current_simulation_mode, target_patient_identifier,
                monitoring_device_identifier, snapshot>>

lockVars == <<lock_holders, at>>

timeVars == <<sinkSeconds>>

noteVars == <<reading_modes, call_sinks, after_stop>>

vars == <<engineVars, genVars, sendVars, clientVars, configVars, lockVars, timeVars,
          noteVars>>

(***************************************************************************)
(* PatientVitalsSimulationEngine.__init__                                  *)
(***************************************************************************)
EngineInit ==
    /\ interval = DEFAULT_SIMULATION_INTERVAL_SECONDS
    /\ running = FALSE
    /\ latest = 0
    /\ pc = [t \in Threads |-> "idle"]
    /\ rd = [t \in Threads |-> 0]
    /\ idx = [t \in Threads |-> 0]
    /\ exc = [t \in Threads |-> FALSE]
    /\ ret = [t \in Threads |-> 0]
    /\ sleepDur = [t \in Threads |-> 0]
    /\ elapsed = [t \in Threads |-> 0]
    /\ nextId = 1
    /\ lastCall = NoCall
    /\ invoked = [t \in Threads |-> << >>]
    /\ raisedIn = [t \in Threads |-> {}]
    /\ cbSnap = [t \in Threads |-> << >>]
    /\ cbChanged = [t \in Threads |-> FALSE]
    /\ stored = [t \in Threads |-> 0]
    /\ sawRunning = [t \in Threads |-> FALSE]
    /\ intervalAtSleep = [t \in Threads |-> 0]
    /\ changedInSleep = [t \in Threads |-> FALSE]


DEFAULT_PATIENT_IDENTIFIER == "patient_001"
DEFAULT_DEVICE_IDENTIFIER == "BioHarness_Sim_001"

\* The identifiers callers give to the setters.
PatientIdentifiers == {DEFAULT_PATIENT_IDENTIFIER, "patient_002"}
DeviceIdentifiers == {DEFAULT_DEVICE_IDENTIFIER, "BioHarness_Sim_002"}

NoSnapshot == [taken |-> FALSE]

\* __init__: the mode and the identifiers; nobody holds a configuration.
ConfigInit ==
    /\ current_simulation_mode = "normal"
    /\ target_patient_identifier = DEFAULT_PATIENT_IDENTIFIER
    /\ monitoring_device_identifier = DEFAULT_DEVICE_IDENTIFIER
    /\ snapshot = NoSnapshot

\* The threads that run the engine's methods: the loop thread that start()
\* creates and the thread of the HTTP handler.  No thread is in a method and
\* none holds the lock after construction.
LoopThread == "VitalSignsSimulationThread"

CallerThreads == {"http_handler"}

LockThreads == CallerThreads \cup {LoopThread}

Outside == [method |-> "none", next |-> 0]

LockInit ==
    /\ lock_holders = {}
    /\ at = [t \in LockThreads |-> Outside]

TimeInit == sinkSeconds = [t \in Threads |-> 0]

\* No call of generate_single_vital_signs_reading has sampled anything.
NoModes == [sampled |-> << >>, simulation_mode_used |-> "none"]

NoCallSinks == [entry |-> << >>, removed |-> {}]

NotStopped == [stopped |-> FALSE, cycles |-> 0]

NoteInit ==
    /\ reading_modes = NoModes
    /\ call_sinks = [t \in Threads |-> NoCallSinks]
    /\ after_stop = NotStopped

threadVars == <<pc, rd, idx, exc, ret, sleepDur, elapsed>>
obsVars == <<invoked, raisedIn, cbSnap, cbChanged, stored, sawRunning,
             intervalAtSleep, changedInSleep>>

Range(q) == {q[i] : i \in 1..Len(q)}

(***************************************************************************)
(* set_data_generation_interval: the check of the argument, then the       *)
(* assignment under the lock.  The result names whether ValueError was     *)
(* raised and the value the field holds afterwards.                        *)
(***************************************************************************)
set_interval_clamping(s) ==
    [raised |-> FALSE,
     value |-> IF s < MINIMUM_SIMULATION_INTERVAL_SECONDS
               THEN MINIMUM_SIMULATION_INTERVAL_SECONDS ELSE s]

set_interval_outcome(s) ==
    IF s < MINIMUM_SIMULATION_INTERVAL_SECONDS
    THEN [raised |-> TRUE, value |-> interval]
    ELSE [raised |-> FALSE, value |-> s]

set_data_generation_interval(s) ==
    LET o == set_interval_outcome(s) IN
    /\ interval' = o.value
    /\ lastCall' = Call("set_interval", s, FALSE, FALSE, o.raised,
                        o.value # interval)
    /\ changedInSleep' =
         [t \in Threads |-> changedInSleep[t]
                            \/ (pc[t] = "asleep" /\ o.value # interval)]
    /\ UNCHANGED <<running, latest, callbacks, threadVars, nextId, invoked, raisedIn, cbSnap, cbChanged, stored, sawRunning,
                   intervalAtSleep>>
    /\ UNCHANGED <<genVars, sendVars, clientVars, configVars, lockVars, timeVars, noteVars>>

(***************************************************************************)
(* start_continuous_vital_signs_simulation and                             *)
(* stop_continuous_vital_signs_simulation: each one critical section.      *)
(***************************************************************************)
FreeSlots == {w \in Workers : pc[w] \in {"idle", "done"}}

\* The thread object start() creates: a fresh one, at the loop's first check.
SpawnLoop(w) ==
    /\ pc' = [pc EXCEPT ![w] = "check"]
    /\ rd' = [rd EXCEPT ![w] = 0]
    /\ idx' = [idx EXCEPT ![w] = 0]
    /\ exc' = [exc EXCEPT ![w] = FALSE]
    /\ ret' = [ret EXCEPT ![w] = 0]
    /\ sleepDur' = [sleepDur EXCEPT ![w] = 0]
    /\ elapsed' = [elapsed EXCEPT ![w] = 0]
    /\ invoked' = [invoked EXCEPT ![w] = << >>]
    /\ raisedIn' = [raisedIn EXCEPT ![w] = {}]
    /\ cbSnap' = [cbSnap EXCEPT ![w] = << >>]
    /\ cbChanged' = [cbChanged EXCEPT ![w] = FALSE]
    /\ stored' = [stored EXCEPT ![w] = 0]
    /\ sawRunning' = [sawRunning EXCEPT ![w] = FALSE]
    /\ intervalAtSleep' = [intervalAtSleep EXCEPT ![w] = 0]
    /\ changedInSleep' = [changedInSleep EXCEPT ![w] = FALSE]

start_without_check ==
    /\ FreeSlots # {}
    /\ running' = TRUE
    /\ SpawnLoop(CHOOSE w \in FreeSlots : \A v \in FreeSlots : w <= v)
    /\ lastCall' = Call("start", 0, running, TRUE, FALSE, ~running)
    /\ UNCHANGED <<interval, latest, callbacks, nextId>>
    /\ UNCHANGED <<genVars, sendVars, clientVars, configVars, lockVars, timeVars, reading_modes, call_sinks>>
    /\ after_stop' = NotStopped

start_continuous_vital_signs_simulation ==
    /\ IF running
       THEN /\ lastCall' = Call("start", 0, TRUE, FALSE, FALSE, FALSE)
            /\ UNCHANGED <<interval, running, latest, callbacks, threadVars,
                           nextId, obsVars>>
       ELSE /\ FreeSlots # {}
            /\ running' = TRUE
            /\ SpawnLoop(CHOOSE w \in FreeSlots : \A v \in FreeSlots : w <= v)
            /\ lastCall' = Call("start", 0, FALSE, TRUE, FALSE, TRUE)
            /\ UNCHANGED <<interval, latest, callbacks, nextId>>
    /\ UNCHANGED <<genVars, sendVars, clientVars, configVars, lockVars, timeVars, reading_modes, call_sinks>>
    /\ after_stop' = IF running THEN after_stop ELSE NotStopped

stop_continuous_vital_signs_simulation ==
    /\ IF ~running
       THEN /\ lastCall' = Call("stop", 0, FALSE, FALSE, FALSE, FALSE)
            /\ UNCHANGED running
       ELSE /\ running' = FALSE
            /\ lastCall' = Call("stop", 0, TRUE, TRUE, FALSE, TRUE)
    /\ UNCHANGED <<interval, latest, callbacks, threadVars, nextId, obsVars>>
    /\ UNCHANGED <<genVars, sendVars, clientVars, configVars, lockVars, timeVars, reading_modes, call_sinks>>
    /\ after_stop' = IF running THEN [stopped |-> TRUE, cycles |-> 0]
                     ELSE after_stop

\* get_most_recent_vital_signs: the field, read under the lock; the call is
\* recorded with the reading it returned (0: None).
get_most_recent_vital_signs ==
    /\ lastCall' = Call("get_latest", latest, running, latest # 0, FALSE, FALSE)
    /\ UNCHANGED <<interval, running, latest, callbacks, threadVars, nextId,
                   obsVars>>
    /\ UNCHANGED <<genVars, sendVars, clientVars, configVars, lockVars, timeVars, noteVars>>

(***************************************************************************)
(* add_data_broadcasting_callback / remove_data_broadcasting_callback:     *)
(* list.append and list.remove (the first occurrence), without the lock.   *)
(***************************************************************************)
RemoveEvery(q, s) == SelectSeq(q, LAMBDA x : x # s)

RemoveFirst(q, s) ==
    LET i == CHOOSE k \in 1..Len(q) : q[k] = s /\ \A j \in 1..(k - 1) : q[j] # s
    IN  [k \in 1..(Len(q) - 1) |-> IF k < i THEN q[k] ELSE q[k + 1]]

\* A change of the list is noted for every thread that holds a notification's
\* record: from the moment its loop over the list began until the record is
\* cleared.
NoteListChange ==
    cbChanged' = [t \in Threads |->
                    cbChanged[t] \/ pc[t] \in {"notify", "ret", "sleep"}]

add_data_broadcasting_callback(s) ==
    /\ Len(callbacks) < MaxSinks
    /\ callbacks' = Append(callbacks, s)
    /\ NoteListChange
    /\ lastCall' = SinkCall("add_sink", s, callbacks, FALSE, TRUE)
    /\ UNCHANGED <<interval, running, latest, threadVars, nextId, invoked, raisedIn, cbSnap, stored, sawRunning,
                   intervalAtSleep, changedInSleep>>
    /\ UNCHANGED <<genVars, sendVars, clientVars, configVars, lockVars, timeVars, noteVars>>

remove_data_broadcasting_callback(s) ==
    /\ IF s \in Range(callbacks)
       THEN /\ callbacks' = RemoveFirst(callbacks, s)
            /\ NoteListChange
            /\ lastCall' = SinkCall("remove_sink", s, callbacks, TRUE, TRUE)
       ELSE /\ lastCall' = SinkCall("remove_sink", s, callbacks, FALSE, FALSE)
            /\ UNCHANGED <<callbacks, cbChanged>>
    /\ UNCHANGED <<interval, running, latest, threadVars, nextId, invoked, raisedIn, cbSnap, stored, sawRunning,
                   intervalAtSleep, changedInSleep>>
    /\ UNCHANGED <<genVars, sendVars, clientVars, configVars, lockVars, timeVars, reading_modes, after_stop>>
    /\ call_sinks' = IF s \in Range(callbacks)
                     THEN [t \in Threads |->
                             IF pc[t] \in {"create", "store", "notify"}
                             THEN [call_sinks[t] EXCEPT !.removed = @ \cup {s}]
                             ELSE call_sinks[t]]
                     ELSE call_sinks

(***************************************************************************)
(* generate_single_vital_signs_reading, as the steps of the calling        *)
(* thread t: the reading is created (sampled and stamped), stored as the   *)
(* latest under the lock, and handed to the callbacks one by one.          *)
(***************************************************************************)
AfterNotify(t) == IF t = Caller THEN "ret" ELSE "sleep"

CreateReading(t) ==
    /\ pc[t] = "create"
    /\ rd' = [rd EXCEPT ![t] = nextId]
    /\ nextId' = nextId + 1
    /\ pc' = [pc EXCEPT ![t] = "store"]
    /\ sinkSeconds' = [sinkSeconds EXCEPT ![t] = 0]
    /\ UNCHANGED <<interval, running, latest, callbacks, idx, exc, ret,
                   sleepDur, elapsed, lastCall, obsVars>>
    /\ UNCHANGED <<genVars, sendVars, clientVars, configVars, lockVars, reading_modes, call_sinks>>
    /\ after_stop' = IF t \in Workers /\ after_stop.stopped
                     THEN [after_stop EXCEPT !.cycles = @ + 1]
                     ELSE after_stop

\* self._most_recent_vital_signs = vital_signs
stored_reading_none(t) == 0

stored_reading_kept(t) == latest

stored_reading(t) == rd[t]

StoreLatest(t) ==
    /\ pc[t] = "store"
    /\ latest' = stored_reading(t)
    /\ stored' = [stored EXCEPT ![t] = rd[t]]
    /\ pc' = [pc EXCEPT ![t] = "notify"]
    /\ idx' = [idx EXCEPT ![t] = 1]
    /\ cbSnap' = [cbSnap EXCEPT ![t] = callbacks]
    /\ UNCHANGED <<interval, running, callbacks, rd, exc, ret, sleepDur,
                   elapsed, nextId, lastCall, invoked, raisedIn,
                   cbChanged, sawRunning, intervalAtSleep, changedInSleep>>
    /\ UNCHANGED <<genVars, sendVars, clientVars, configVars, lockVars, timeVars, noteVars>>

(***************************************************************************)
(* _notify_data_broadcasting_callbacks: the for loop over the live list.   *)
(* What follows one call of a callback: the except clause catches what it  *)
(* raised, and the loop goes on with the next index.                       *)
(***************************************************************************)
after_callback_propagating(t, o) ==
    IF o = "raised"
    THEN [pc |-> AfterNotify(t), idx |-> idx[t], exc |-> TRUE,
          callbacks |-> callbacks]
    ELSE [pc |-> "notify", idx |-> idx[t] + 1, exc |-> FALSE,
          callbacks |-> callbacks]

after_callback_uncaught(t, o) ==
    IF o = "raised"
    THEN [pc |-> IF t = Caller THEN "ret" ELSE "done", idx |-> idx[t],
          exc |-> TRUE, callbacks |-> callbacks]
    ELSE [pc |-> "notify", idx |-> idx[t] + 1, exc |-> FALSE,
          callbacks |-> callbacks]

after_callback(t, o) ==
    [pc |-> "notify", idx |-> idx[t] + 1, exc |-> FALSE,
     callbacks |-> callbacks]

InvokeCallback(t) ==
    /\ pc[t] = "notify"
    /\ idx[t] <= Len(callbacks)
    /\ LET s == callbacks[idx[t]] IN
       \E o \in SinkOutcomes(s) :
         LET n == after_callback(t, o) IN
         /\ invoked' = [invoked EXCEPT ![t] = Append(@, s)]
         /\ raisedIn' = [raisedIn EXCEPT ![t] =
                           IF o = "raised" THEN @ \cup {s} ELSE @]
         /\ pc' = [pc EXCEPT ![t] = n.pc]
         /\ idx' = [idx EXCEPT ![t] = n.idx]
         /\ exc' = [exc EXCEPT ![t] = n.exc]
         /\ callbacks' = n.callbacks
    /\ UNCHANGED <<interval, running, latest, rd, ret, sleepDur, elapsed,
                   nextId, lastCall, cbSnap, cbChanged, stored, sawRunning,
                   intervalAtSleep, changedInSleep>>
    /\ UNCHANGED <<genVars, sendVars, clientVars, configVars, lockVars, timeVars, noteVars>>

\* The list is exhausted: generate returns the reading.
NotifyDone(t) ==
    /\ pc[t] = "notify"
    /\ idx[t] > Len(callbacks)
    /\ pc' = [pc EXCEPT ![t] = AfterNotify(t)]
    /\ ret' = [ret EXCEPT ![t] = rd[t]]
    /\ UNCHANGED <<interval, running, latest, callbacks, rd, idx, exc,
                   sleepDur, elapsed, nextId, lastCall, obsVars>>
    /\ UNCHANGED <<genVars, sendVars, clientVars, configVars, lockVars, timeVars, noteVars>>

\* What a generate call leaves behind is cleared when its caller goes on.
ClearCall(t, to) ==
    /\ pc' = [pc EXCEPT ![t] = to]
    /\ rd' = [rd EXCEPT ![t] = 0]
    /\ idx' = [idx EXCEPT ![t] = 0]
    /\ ret' = [ret EXCEPT ![t] = 0]
    /\ exc' = [exc EXCEPT ![t] = FALSE]
    /\ invoked' = [invoked EXCEPT ![t] = << >>]
    /\ cbSnap' = [cbSnap EXCEPT ![t] = << >>]
    /\ cbChanged' = [cbChanged EXCEPT ![t] = FALSE]
    /\ stored' = [stored EXCEPT ![t] = 0]

(***************************************************************************)
(* The on-demand caller (the HTTP handler of /api/vitals/generate).        *)
(***************************************************************************)
CallerGenerate ==
    /\ pc[Caller] = "idle"
    /\ nextId <= MaxReadings
    /\ pc' = [pc EXCEPT ![Caller] = "create"]
    /\ UNCHANGED <<interval, running, latest, callbacks, rd, idx, exc, ret,
                   sleepDur, elapsed, nextId, lastCall, obsVars>>
    /\ UNCHANGED <<genVars, sendVars, clientVars, configVars, lockVars, timeVars, reading_modes, after_stop>>
    /\ call_sinks' = [call_sinks EXCEPT ![Caller] =
                        [entry |-> callbacks, removed |-> {}]]

CallerReturn ==
    /\ pc[Caller] = "ret"
    /\ ClearCall(Caller, "idle")
    /\ raisedIn' = [raisedIn EXCEPT ![Caller] = {}]
    /\ UNCHANGED <<interval, running, latest, callbacks, sleepDur, elapsed,
                   nextId, lastCall, sawRunning, intervalAtSleep,
                   changedInSleep>>
    /\ UNCHANGED <<genVars, sendVars, clientVars, configVars, lockVars, timeVars, noteVars>>

(***************************************************************************)
(* _continuous_simulation_loop, as the steps of loop thread w.             *)
(***************************************************************************)
\* while self._is_continuous_simulation_running: (read without the lock)
loop_condition_constant(w) == TRUE

loop_condition(w) == running

LoopCheck(w) ==
    /\ pc[w] = "check"
    /\ sawRunning' = [sawRunning EXCEPT ![w] = running]
    /\ IF loop_condition(w)
       THEN /\ nextId <= MaxReadings
            /\ pc' = [pc EXCEPT ![w] = "create"]
       ELSE pc' = [pc EXCEPT ![w] = "done"]
    /\ sleepDur' = [sleepDur EXCEPT ![w] = 0]
    /\ elapsed' = [elapsed EXCEPT ![w] = 0]
    /\ intervalAtSleep' = [intervalAtSleep EXCEPT ![w] = 0]
    /\ changedInSleep' = [changedInSleep EXCEPT ![w] = FALSE]
    /\ raisedIn' = [raisedIn EXCEPT ![w] = {}]
    /\ UNCHANGED <<interval, running, latest, callbacks, rd, idx, exc, ret,
                   nextId, lastCall, invoked, cbSnap, cbChanged, stored>>
    /\ UNCHANGED <<genVars, sendVars, clientVars, configVars, lockVars, timeVars, reading_modes, after_stop>>
    /\ call_sinks' = IF loop_condition(w)
                     THEN [call_sinks EXCEPT ![w] =
                             [entry |-> callbacks, removed |-> {}]]
                     ELSE call_sinks

\* The argument of the time.sleep that follows a generate call: the interval
\* field as it is now, or the error pause when the call raised.
sleep_argument(w) ==
    IF exc[w] THEN LOOP_ERROR_PAUSE_SECONDS ELSE interval

LoopSleep(w) ==
    /\ w \in Workers
    /\ pc[w] = "sleep"
    /\ sleepDur' = [sleepDur EXCEPT ![w] = sleep_argument(w)]
    /\ intervalAtSleep' = [intervalAtSleep EXCEPT ![w] = interval]
    /\ changedInSleep' = [changedInSleep EXCEPT ![w] = FALSE]
    /\ elapsed' = [elapsed EXCEPT ![w] = 0]
    /\ ClearCall(w, "asleep")
    /\ UNCHANGED <<interval, running, latest, callbacks, nextId, lastCall,
                   raisedIn, sawRunning>>
    /\ UNCHANGED <<genVars, sendVars, clientVars, configVars, lockVars, timeVars, noteVars>>

\* The number of seconds after which the sleep of w ends: the argument it
\* was called with.
sleep_end_live(w) == interval

sleep_end(w) == sleepDur[w]

Sleepers == {w \in Workers : pc[w] = "asleep"}

\* Time passes for every sleeping thread, up to the moment the first of
\* them is due.
Remaining(w) == sleep_end(w) - elapsed[w]

Tick ==
    /\ Sleepers # {}
    /\ \A w \in Sleepers : Remaining(w) > 0
    /\ LET d == CHOOSE x \in {Remaining(w) : w \in Sleepers} :
                   \A w \in Sleepers : x <= Remaining(w)
       IN  elapsed' = [t \in Threads |->
                         IF t \in Sleepers THEN elapsed[t] + d ELSE elapsed[t]]
    /\ UNCHANGED <<interval, running, latest, callbacks, pc, rd, idx, exc,
                   ret, sleepDur, nextId, lastCall, obsVars>>
    /\ UNCHANGED <<genVars, sendVars, clientVars, configVars, lockVars, timeVars, noteVars>>

LoopWake(w) ==
    /\ pc[w] = "asleep"
    /\ elapsed[w] >= sleep_end(w)
    /\ pc' = [pc EXCEPT ![w] = "check"]
    /\ UNCHANGED <<interval, running, latest, callbacks, rd, idx, exc, ret,
                   sleepDur, elapsed, nextId, lastCall, obsVars>>
    /\ UNCHANGED <<genVars, sendVars, clientVars, configVars, lockVars, timeVars, noteVars>>

\* callback_function(vital_signs) takes time: a second passes while thread t
\* is inside the callback its notification has reached (a delivery, a retry
\* delay, a slow log), for t and for every sleeping thread.
SinkTakesTime(t) ==
    /\ pc[t] = "notify"
    /\ idx[t] <= Len(callbacks)
    /\ sinkSeconds[t] < MaxSinkSeconds
    /\ \A w \in Sleepers : Remaining(w) > 0
    /\ sinkSeconds' = [sinkSeconds EXCEPT ![t] = @ + 1]
    /\ elapsed' = [u \in Threads |->
                     IF u \in Sleepers THEN elapsed[u] + 1 ELSE elapsed[u]]
    /\ UNCHANGED <<interval, running, latest, callbacks, pc, rd, idx, exc,
                   ret, sleepDur, nextId, lastCall, obsVars>>
    /\ UNCHANGED <<genVars, sendVars, clientVars, configVars, lockVars, noteVars>>

(***************************************************************************)
(* VitalSignsValueGenerator (vitals_generator.py).                         *)
(*                                                                         *)
(* Values are fixed-point numbers: Unit stands for 1.0 and Tenth for 0.1,  *)
(* the precision round(value, 1) rounds to.  Every bound of a range is a   *)
(* multiple of Hundredth, which keeps the 15%, 25% and 30% fractions of a  *)
(* width exact.                                                            *)
(***************************************************************************)
Unit == 10 * Tenth
Hundredth == Tenth \div 10

VitalTypes == {"heart_rate", "bp_systolic", "bp_diastolic", "spo2",
               "temperature", "respiratory_rate"}

NORMAL_HEALTHY_PATIENT == "normal"
ABNORMAL_CONDITION_PATIENT == "abnormal"
EMERGENCY_CRITICAL_PATIENT == "emergency"
Modes == {NORMAL_HEALTHY_PATIENT, ABNORMAL_CONDITION_PATIENT,
          EMERGENCY_CRITICAL_PATIENT}

NORMAL_VITAL_RANGES ==
    [heart_rate |-> <<60 * Unit, 100 * Unit>>,
     bp_systolic |-> <<90 * Unit, 140 * Unit>>,
     bp_diastolic |-> <<60 * Unit, 90 * Unit>>,
     spo2 |-> <<95 * Unit, 100 * Unit>>,
     temperature |-> <<361 * Tenth, 372 * Tenth>>,
     respiratory_rate |-> <<12 * Unit, 20 * Unit>>]

ABNORMAL_VITAL_RANGES ==
    [heart_rate |-> <<40 * Unit, 180 * Unit>>,
     bp_systolic |-> <<70 * Unit, 200 * Unit>>,
     bp_diastolic |-> <<40 * Unit, 120 * Unit>>,
     spo2 |-> <<85 * Unit, 94 * Unit>>,
     temperature |-> <<35 * Unit, 40 * Unit>>,
     respiratory_rate |-> <<8 * Unit, 30 * Unit>>]

EMERGENCY_VITAL_RANGES ==
    [heart_rate |-> <<30 * Unit, 220 * Unit>>,
     bp_systolic |-> <<60 * Unit, 250 * Unit>>,
     bp_diastolic |-> <<30 * Unit, 150 * Unit>>,
     spo2 |-> <<70 * Unit, 84 * Unit>>,
     temperature |-> <<32 * Unit, 42 * Unit>>,
     respiratory_rate |-> <<5 * Unit, 40 * Unit>>]

\* self._predefined_vital_ranges
predefined_vital_ranges ==
    [m \in Modes |->
        IF m = NORMAL_HEALTHY_PATIENT THEN NORMAL_VITAL_RANGES
        ELSE IF m = ABNORMAL_CONDITION_PATIENT THEN ABNORMAL_VITAL_RANGES
        ELSE EMERGENCY_VITAL_RANGES]

\* A vital type without an entry in the override table.
NoRange == << >>

\* The bounds callers give to the setters of an override: a range narrower
\* than a tenth, and ranges away from every static range of the heart rate.
OverrideBounds == {Hundredth, 4 * Hundredth, 150 * Unit}

\* The vital types callers set an override for.
OverrideTypes == {"heart_rate", "temperature"}

\* How a call on the override table ended: the operation, the object it was
\* called on, its arguments, whether it raised, what it returned, and the
\* table it found.
GenCall(op, via, vt, lo, hi, raised, r, before) ==
    [op |-> op, via |-> via, vt |-> vt, lo |-> lo, hi |-> hi,
     raised |-> raised, ret |-> r, before |-> before]

NoGenCall == [op |-> "none"]
NoSample == [vt |-> "none"]

GenInit ==
    /\ custom = [v \in VitalTypes |-> NoRange]
    /\ sample = NoSample
    /\ genCall = NoGenCall

\* float('nan'), which json.loads gives for the literal NaN of a request
\* body: a number apart from every bound and every value.
NaN == -1

\* The bounds a caller can hand to the setters: the numbers above, and NaN.
FloatBounds == OverrideBounds \cup {NaN}

\* a >= b on floats: FALSE as soon as one side is NaN.
float_ge(a, b) == a # NaN /\ b # NaN /\ a >= b

\* set_custom_vital_range: the check of the bounds, then the assignment.
\* The result names whether ValueError was raised and the table afterwards.
custom_range_outcome_unordered(vt, lo, hi) ==
    IF lo > hi
    THEN [raised |-> TRUE, table |-> custom]
    ELSE [raised |-> FALSE, table |-> [custom EXCEPT ![vt] = <<lo, hi>>]]

custom_range_outcome(vt, lo, hi) ==
    IF float_ge(lo, hi)
    THEN [raised |-> TRUE, table |-> custom]
    ELSE [raised |-> FALSE, table |-> [custom EXCEPT ![vt] = <<lo, hi>>]]

set_custom_vital_range(via, vt, lo, hi) ==
    LET o == custom_range_outcome(vt, lo, hi) IN
    /\ custom' = o.table
    /\ genCall' = GenCall("set", via, vt, lo, hi, o.raised, FALSE, custom)
    /\ sample' = NoSample
    /\ UNCHANGED <<engineVars, sendVars, clientVars, configVars, lockVars, timeVars, noteVars>>

\* The engine's setter hands its arguments to the generator's.
set_custom_vital_sign_range(vt, lo, hi) ==
    set_custom_vital_range("engine", vt, lo, hi)

\* remove_custom_vital_range: dict.pop(vital_type, None) is not None.  The
\* result names what the call returns and the table afterwards.
custom_range_removal_always_true(vt) ==
    [returned |-> TRUE, table |-> [custom EXCEPT ![vt] = NoRange]]

custom_range_removal(vt) ==
    [returned |-> custom[vt] # NoRange,
     table |-> [custom EXCEPT ![vt] = NoRange]]

remove_custom_vital_range(via, vt) ==
    LET o == custom_range_removal(vt) IN
    /\ custom' = o.table
    /\ genCall' = GenCall("remove", via, vt, 0, 0, FALSE, o.returned, custom)
    /\ sample' = NoSample
    /\ UNCHANGED <<engineVars, sendVars, clientVars, configVars, lockVars, timeVars, noteVars>>

remove_custom_vital_sign_range(vt) == remove_custom_vital_range("engine", vt)

clear_all_custom_ranges ==
    /\ custom' = [v \in VitalTypes |-> NoRange]
    /\ genCall' = GenCall("clear", "generator", "none", 0, 0, FALSE, FALSE,
                          custom)
    /\ sample' = NoSample
    /\ UNCHANGED <<engineVars, sendVars, clientVars, configVars, lockVars, timeVars, noteVars>>

\* get_vital_range_for_mode: the override first, the mode's table otherwise.
get_vital_range_static_only(vt, mode) == predefined_vital_ranges[mode][vt]

get_vital_range_for_mode(vt, mode) ==
    IF custom[vt] # NoRange THEN custom[vt]
    ELSE predefined_vital_ranges[mode][vt]

\* round(x, 1): to the nearest tenth.  A value half way between two tenths
\* that a float holds exactly (a multiple of a quarter) goes to the even
\* tenth; any other half-way value stands for the floats next to it, of
\* which some round down and some round up.
RoundToTenth(x) ==
    LET r == x % Tenth
        down == x - r
        up == down + Tenth
    IN  IF 2 * r < Tenth THEN {down}
        ELSE IF 2 * r > Tenth THEN {up}
        ELSE IF x % (5 * Tenth) = (5 * Tenth) \div 2
             THEN {IF (down \div Tenth) % 2 = 0 THEN down ELSE up}
             ELSE {down, up}

Rounded(S) == UNION {RoundToTenth(x) : x \in S}

\* random.uniform(a, b): the values drawn are those up to EdgeSamples steps
\* from either end of [a, b], and the middle.
RawSamples(a, b) ==
    {x \in {a + k * SampleStep : k \in 0..EdgeSamples}
           \cup {b - k * SampleStep : k \in 0..EdgeSamples}
           \cup {(a + b) \div 2} : a <= x /\ x <= b}

Percent(p, width) == (p * width) \div 100

Clamp(lo, hi, x) == IF x < lo THEN lo ELSE IF x > hi THEN hi ELSE x

Branch(b, S) == {[branch |-> b, value |-> v] : v \in S}

\* _generate_normal_patient_value and the two mode-specific samplers: the
\* set of what a call can return, each value with the branch it came from.
normal_value_unclamped(lo, hi) ==
    LET center_point == (lo + hi) \div 2
        variation_range == Percent(65, hi - lo)
    IN  Branch("center", Rounded(RawSamples(center_point - variation_range,
                                            center_point + variation_range)))

normal_value_wide_variation(lo, hi) ==
    LET center_point == (lo + hi) \div 2
        variation_range == Percent(25, hi - lo)
    IN  Branch("center",
               Rounded({Clamp(lo, hi, x) :
                          x \in RawSamples(center_point - variation_range,
                                           center_point + variation_range)}))

generate_normal_patient_value(lo, hi) ==
    LET center_point == (lo + hi) \div 2
        variation_range == Percent(15, hi - lo)
    IN  Branch("center",
               Rounded({Clamp(lo, hi, x) :
                          x \in RawSamples(center_point - variation_range,
                                           center_point + variation_range)}))

abnormal_value_fallback_in_active_range(vt, lo, hi) ==
    LET spike == Percent(25, hi - lo)
    IN  Branch("low", Rounded(RawSamples(lo, lo + spike)))
        \cup Branch("high", Rounded(RawSamples(hi - spike, hi)))
        \cup Branch("fallback", Rounded(RawSamples(lo, hi)))

generate_abnormal_patient_value(vt, lo, hi) ==
    LET spike == Percent(25, hi - lo)
        normal_ranges == NORMAL_VITAL_RANGES[vt]
    IN  Branch("low", Rounded(RawSamples(lo, lo + spike)))
        \cup Branch("high", Rounded(RawSamples(hi - spike, hi)))
        \cup Branch("fallback",
                    Rounded(RawSamples(normal_ranges[1], normal_ranges[2])))

emergency_value_fallback_in_active_range(vt, lo, hi) ==
    LET critical == Percent(30, hi - lo)
    IN  Branch("low", Rounded(RawSamples(lo, lo + critical)))
        \cup Branch("high", Rounded(RawSamples(hi - critical, hi)))
        \cup Branch("fallback", Rounded(RawSamples(lo, hi)))

generate_emergency_patient_value(vt, lo, hi) ==
    LET critical == Percent(30, hi - lo)
        abnormal_ranges == ABNORMAL_VITAL_RANGES[vt]
    IN  Branch("low", Rounded(RawSamples(lo, lo + critical)))
        \cup Branch("high", Rounded(RawSamples(hi - critical, hi)))
        \cup Branch("fallback",
                    Rounded(RawSamples(abnormal_ranges[1], abnormal_ranges[2])))

generate_vital_sign_value(vt, mode) ==
    LET r == get_vital_range_for_mode(vt, mode) IN
    IF mode = NORMAL_HEALTHY_PATIENT
    THEN generate_normal_patient_value(r[1], r[2])
    ELSE IF mode = ABNORMAL_CONDITION_PATIENT
         THEN generate_abnormal_patient_value(vt, r[1], r[2])
         ELSE generate_emergency_patient_value(vt, r[1], r[2])

\* One call of generate_vital_sign_value.
GenerateValue(vt, mode) ==
    /\ \E g \in generate_vital_sign_value(vt, mode) :
         sample' = [vt |-> vt, mode |-> mode, branch |-> g.branch,
                    value |-> g.value]
    /\ genCall' = NoGenCall
    /\ UNCHANGED <<custom, engineVars, sendVars, clientVars, configVars, lockVars, timeVars, noteVars>>

(***************************************************************************)
(* VitalSignsDataBroadcaster (data_broadcaster.py).                        *)
(***************************************************************************)
RULE_ENGINE_CONNECTION_TIMEOUT_SECONDS == 5
RULE_ENGINE_REQUEST_RETRY_COUNT == 3
UI_CONNECTION_TIMEOUT_SECONDS == 3
BROADCASTING_RETRY_DELAY_SECONDS == 2
MAX_BROADCASTING_RETRIES == 3
CONNECTIVITY_TEST_ATTEMPTS == 1
ENABLE_RULE_ENGINE_BROADCASTING == TRUE
ENABLE_UI_BROADCASTING == TRUE

\* BroadcastingDestination
RULE_ENGINE == "rule_engine"
USER_INTERFACE == "user_interface"

RuleEngineUrls == {"rule_engine_url", "rule_engine_url_2"}
UiUrls == {"ui_url", "ui_url_2"}

\* What one requests.post can end in: a response with a status code, or one
\* of the exceptions the send tells apart.
Statuses == {200, 201, 202, 204, 500}
Exceptions == {"Timeout", "ConnectionError", "RequestException", "Exception"}
Response(status) == [status |-> status, exception |-> "None"]
Raised(e) == [status |-> 0, exception |-> e]
PostOutcomes == {Response(c) : c \in Statuses} \cup {Raised(e) : e \in Exceptions}

\* Texts: what the text is about, and the number and the URL it names.
Text(kind, n, url) == [kind |-> kind, n |-> n, url |-> url]
None == Text("None", 0, "")

\* BroadcastingResult; its error_message names the last exception when the
\* attempts ran out.
BroadcastingResult(name, ok, error, last, status) ==
    [destination_name |-> name, was_successful |-> ok,
     error_message |-> error, last_error |-> last,
     response_status_code |-> status]

NoResult == BroadcastingResult("", FALSE, None, None, 0)

\* The frame of one call of _send_http_post_request_with_retries.
Frame(name, url, timeout, attempts) ==
    [destination_name |-> name, endpoint_url |-> url,
     timeout_seconds |-> timeout, max_retry_attempts |-> attempts,
     attempt_number |-> 0, last_exception |-> None, at |-> "post"]

NoFrame == Frame("", "", 0, 0)

\* The UI's part of the configuration.
UiConfig == [enabled |-> uiEnabled, url |-> uiUrl]
NoUi == [enabled |-> FALSE, url |-> ""]

BroadcasterInit ==
    /\ ruleUrl = "rule_engine_url"
    /\ uiUrl = "ui_url"
    /\ ruleEnabled = ENABLE_RULE_ENGINE_BROADCASTING
    /\ uiEnabled = ENABLE_UI_BROADCASTING
    /\ bpc = "idle"
    /\ results = << >>
    /\ frame = NoFrame
    /\ sendResult = NoResult
    /\ outcomes = << >>
    /\ waited = 0
    /\ posted = << >>
    /\ sawRule = FALSE
    /\ sawUi = FALSE
    /\ flagsChanged = FALSE
    /\ uiAtBegin = NoUi

callVars == <<bpc, results, frame, sendResult, outcomes, waited, posted,
              sawRule, sawUi, uiAtBegin>>

\* The setters of the broadcaster's configuration; another thread can call
\* them while a broadcast is under way.
set_rule_engine_endpoint(u) ==
    /\ ruleUrl' = u
    /\ UNCHANGED <<uiUrl, ruleEnabled, uiEnabled, callVars, flagsChanged,
                   engineVars, genVars, clientVars, configVars, lockVars, timeVars, noteVars>>

set_ui_endpoint(u) ==
    /\ uiUrl' = u
    /\ UNCHANGED <<ruleUrl, ruleEnabled, uiEnabled, callVars, flagsChanged,
                   engineVars, genVars, clientVars, configVars, lockVars, timeVars, noteVars>>

enable_rule_engine_broadcasting(b) ==
    /\ ruleEnabled' = b
    /\ flagsChanged' = (flagsChanged \/ (bpc # "idle" /\ b # ruleEnabled))
    /\ UNCHANGED <<ruleUrl, uiUrl, uiEnabled, callVars, engineVars, genVars, clientVars, configVars, lockVars, timeVars, noteVars>>

enable_ui_broadcasting(b) ==
    /\ uiEnabled' = b
    /\ flagsChanged' = (flagsChanged \/ (bpc # "idle" /\ b # uiEnabled))
    /\ UNCHANGED <<ruleUrl, uiUrl, ruleEnabled, callVars, engineVars, genVars, clientVars, configVars, lockVars, timeVars, noteVars>>

\* broadcast_to_rule_engine, broadcast_to_user_interface and the two
\* connectivity tests: the arguments each gives to the send.
broadcast_to_rule_engine ==
    Frame("Rule Engine", ruleUrl, RULE_ENGINE_CONNECTION_TIMEOUT_SECONDS,
          RULE_ENGINE_REQUEST_RETRY_COUNT)

broadcast_to_user_interface ==
    Frame("User Interface", uiUrl, UI_CONNECTION_TIMEOUT_SECONDS,
          MAX_BROADCASTING_RETRIES)

test_rule_engine_connectivity ==
    Frame("Rule Engine (Test)", ruleUrl,
          RULE_ENGINE_CONNECTION_TIMEOUT_SECONDS, CONNECTIVITY_TEST_ATTEMPTS)

test_ui_connectivity ==
    Frame("User Interface (Test)", uiUrl, UI_CONNECTION_TIMEOUT_SECONDS,
          CONNECTIVITY_TEST_ATTEMPTS)

\* The read of a destination's flag by the if that guards its send.
destination_always_enabled(d) == TRUE

destination_enabled(d) ==
    IF d = RULE_ENGINE THEN ruleEnabled ELSE uiEnabled

\* A call begins: what the one before left behind is dropped.
BeginCall(to, f) ==
    /\ bpc' = to
    /\ frame' = f
    /\ sendResult' = NoResult
    /\ outcomes' = << >>
    /\ waited' = 0

\* broadcast_vital_signs_to_all_destinations, as the steps of its thread.
BeginBroadcast ==
    /\ bpc = "idle"
    /\ bpc' = "rule_if"
    /\ results' = << >>
    /\ posted' = << >>
    /\ sawRule' = FALSE
    /\ sawUi' = FALSE
    /\ flagsChanged' = FALSE
    /\ uiAtBegin' = NoUi
    /\ frame' = NoFrame
    /\ sendResult' = NoResult
    /\ outcomes' = << >>
    /\ waited' = 0
    /\ UNCHANGED <<ruleUrl, uiUrl, ruleEnabled, uiEnabled, engineVars, genVars, clientVars, configVars, lockVars, timeVars, noteVars>>

\* if self._is_rule_engine_broadcasting_enabled:
RuleEngineIf ==
    /\ bpc = "rule_if"
    /\ sawRule' = destination_enabled(RULE_ENGINE)
    /\ uiAtBegin' = UiConfig
    /\ IF destination_enabled(RULE_ENGINE)
       THEN BeginCall("rule_send", broadcast_to_rule_engine)
       ELSE /\ bpc' = "ui_if"
            /\ UNCHANGED <<frame, sendResult, outcomes, waited>>
    /\ UNCHANGED <<ruleUrl, uiUrl, ruleEnabled, uiEnabled, results, posted,
                   sawUi, flagsChanged, engineVars, genVars, clientVars, configVars, lockVars, timeVars, noteVars>>

\* Where the broadcast goes on after the rule engine's result: to the if of
\* the UI, whatever the result is.
after_rule_engine_result_stopping(r) ==
    IF r.was_successful THEN "ui_if" ELSE "return"

after_rule_engine_result(r) == "ui_if"

\* broadcasting_results.append(rule_engine_result)
RuleEngineAppend ==
    /\ bpc = "rule_send"
    /\ frame.at = "returned"
    /\ results' = Append(results, sendResult)
    /\ BeginCall(after_rule_engine_result(sendResult), NoFrame)
    /\ UNCHANGED <<ruleUrl, uiUrl, ruleEnabled, uiEnabled, posted, sawRule,
                   sawUi, flagsChanged, uiAtBegin, engineVars, genVars, clientVars, configVars, lockVars, timeVars, noteVars>>

\* if self._is_ui_broadcasting_enabled:
UiIf ==
    /\ bpc = "ui_if"
    /\ sawUi' = destination_enabled(USER_INTERFACE)
    /\ IF destination_enabled(USER_INTERFACE)
       THEN BeginCall("ui_send", broadcast_to_user_interface)
       ELSE /\ bpc' = "return"
            /\ UNCHANGED <<frame, sendResult, outcomes, waited>>
    /\ UNCHANGED <<ruleUrl, uiUrl, ruleEnabled, uiEnabled, results, posted,
                   sawRule, flagsChanged, uiAtBegin, engineVars, genVars, clientVars, configVars, lockVars, timeVars, noteVars>>

\* broadcasting_results.append(ui_result)
UiAppend ==
    /\ bpc = "ui_send"
    /\ frame.at = "returned"
    /\ results' = Append(results, sendResult)
    /\ BeginCall("return", NoFrame)
    /\ UNCHANGED <<ruleUrl, uiUrl, ruleEnabled, uiEnabled, posted, sawRule,
                   sawUi, flagsChanged, uiAtBegin, engineVars, genVars, clientVars, configVars, lockVars, timeVars, noteVars>>

\* return broadcasting_results
BroadcastReturn ==
    /\ bpc = "return"
    /\ bpc' = "idle"
    /\ UNCHANGED <<ruleUrl, uiUrl, ruleEnabled, uiEnabled, results, frame,
                   sendResult, outcomes, waited, posted, sawRule, sawUi,
                   flagsChanged, uiAtBegin, engineVars, genVars, clientVars, configVars, lockVars, timeVars, noteVars>>

\* A connectivity test, called while no broadcast is under way.
BeginTest(f) ==
    /\ bpc = "idle"
    /\ BeginCall("test_send", f)
    /\ results' = << >>
    /\ posted' = << >>
    /\ sawRule' = FALSE
    /\ sawUi' = FALSE
    /\ flagsChanged' = FALSE
    /\ uiAtBegin' = NoUi
    /\ UNCHANGED <<ruleUrl, uiUrl, ruleEnabled, uiEnabled, engineVars, genVars, clientVars, configVars, lockVars, timeVars, noteVars>>

TestReturn ==
    /\ bpc = "test_send"
    /\ frame.at = "returned"
    /\ bpc' = "idle"
    /\ UNCHANGED <<ruleUrl, uiUrl, ruleEnabled, uiEnabled, results, frame,
                   sendResult, outcomes, waited, posted, sawRule, sawUi,
                   flagsChanged, uiAtBegin, engineVars, genVars, clientVars, configVars, lockVars, timeVars, noteVars>>

(***************************************************************************)
(* _send_http_post_request_with_retries, as the steps of its for loop.     *)
(***************************************************************************)
Sending == bpc \in {"rule_send", "ui_send", "test_send"}

SUCCESS_STATUS_CODES == {200, 201, 202}

\* What the except clauses make of an exception.
exception_text(f, o) ==
    IF o = "Timeout"
    THEN Text("Request timeout after seconds", f.timeout_seconds, "")
    ELSE IF o = "ConnectionError"
         THEN Text("Connection error to", 0, f.endpoint_url)
         ELSE IF o = "RequestException" THEN Text("Request error", 0, "")
              ELSE Text("Unexpected error", 0, "")

\* The except clauses end in "except Exception": every exception of the
\* POST is caught.
caught_requests_only(e) == e # "Exception"

caught(e) == TRUE

\* What follows a response: the send returns, whatever the status.
after_response_retrying(f, status) ==
    IF status \in SUCCESS_STATUS_CODES
    THEN [returns |-> TRUE,
          result |-> BroadcastingResult(f.destination_name, TRUE, None, None,
                                        status),
          last_exception |-> f.last_exception]
    ELSE [returns |-> FALSE, result |-> NoResult,
          last_exception |-> Text("HTTP", status, "")]

after_response_first_attempt_only(f, status) ==
    IF status \in SUCCESS_STATUS_CODES /\ f.attempt_number = 0
    THEN [returns |-> TRUE,
          result |-> BroadcastingResult(f.destination_name, TRUE, None, None,
                                        status),
          last_exception |-> f.last_exception]
    ELSE [returns |-> FALSE, result |-> NoResult,
          last_exception |-> Text("HTTP", status, "")]

after_response(f, status) ==
    IF status \in SUCCESS_STATUS_CODES
    THEN [returns |-> TRUE,
          result |-> BroadcastingResult(f.destination_name, TRUE, None, None,
                                        status),
          last_exception |-> f.last_exception]
    ELSE [returns |-> TRUE,
          result |-> BroadcastingResult(f.destination_name, FALSE,
                                        Text("HTTP", status, ""), None,
                                        status),
          last_exception |-> f.last_exception]

\* Where the loop goes after an attempt that did not return: to the delay
\* unless the attempt was the last.
after_failed_attempt_keeping_first(f, last) ==
    LET kept == IF f.last_exception = None THEN last ELSE f.last_exception
    IN  IF f.attempt_number < f.max_retry_attempts - 1
        THEN [f EXCEPT !.last_exception = kept, !.at = "delay"]
        ELSE [f EXCEPT !.last_exception = kept,
                       !.attempt_number = f.attempt_number + 1]

after_failed_attempt_always_delaying(f, last) ==
    [f EXCEPT !.last_exception = last, !.at = "delay"]

AfterFailedAttempt(f, last) ==
    IF f.attempt_number < f.max_retry_attempts - 1
    THEN [f EXCEPT !.last_exception = last, !.at = "delay"]
    ELSE [f EXCEPT !.last_exception = last,
                   !.attempt_number = f.attempt_number + 1]

\* One iteration of the for loop up to the delay: requests.post and what
\* the try block makes of its outcome.
PostAttempt ==
    /\ Sending
    /\ frame.at = "post"
    /\ frame.attempt_number < frame.max_retry_attempts
    /\ \E o \in PostOutcomes :
         /\ outcomes' = Append(outcomes, o)
         /\ IF o.exception = "None"
            THEN LET a == after_response(frame, o.status) IN
                 IF a.returns
                 THEN /\ sendResult' = a.result
                      /\ frame' = [frame EXCEPT !.at = "returned"]
                 ELSE /\ frame' = AfterFailedAttempt(frame, a.last_exception)
                      /\ UNCHANGED sendResult
            ELSE /\ frame' = IF caught(o.exception)
                             THEN AfterFailedAttempt(
                                    frame, exception_text(frame, o.exception))
                             ELSE [frame EXCEPT !.at = "raised"]
                 /\ UNCHANGED sendResult
    /\ posted' = Append(posted, frame.endpoint_url)
    /\ UNCHANGED <<ruleUrl, uiUrl, ruleEnabled, uiEnabled, bpc, results,
                   waited, sawRule, sawUi, flagsChanged, uiAtBegin, engineVars, genVars, clientVars, configVars, lockVars, timeVars, noteVars>>

\* time.sleep(BROADCASTING_RETRY_DELAY_SECONDS), then the next iteration.
RetryDelay ==
    /\ Sending
    /\ frame.at = "delay"
    /\ waited' = waited + BROADCASTING_RETRY_DELAY_SECONDS
    /\ frame' = [frame EXCEPT !.at = "post",
                              !.attempt_number = frame.attempt_number + 1]
    /\ UNCHANGED <<ruleUrl, uiUrl, ruleEnabled, uiEnabled, bpc, results,
                   sendResult, outcomes, posted, sawRule, sawUi,
                   flagsChanged, uiAtBegin, engineVars, genVars, clientVars, configVars, lockVars, timeVars, noteVars>>

\* The loop is exhausted: "Failed after N attempts. Last error: ...".
AttemptsExhausted ==
    /\ Sending
    /\ frame.at = "post"
    /\ frame.attempt_number >= frame.max_retry_attempts
    /\ sendResult' = BroadcastingResult(
                        frame.destination_name, FALSE,
                        Text("Failed after attempts",
                             frame.max_retry_attempts, ""),
                        frame.last_exception, 0)
    /\ frame' = [frame EXCEPT !.at = "returned"]
    /\ UNCHANGED <<ruleUrl, uiUrl, ruleEnabled, uiEnabled, bpc, results,
                   outcomes, waited, posted, sawRule, sawUi, flagsChanged, uiAtBegin,
                   engineVars, genVars, clientVars, configVars, lockVars, timeVars, noteVars>>

(***************************************************************************)
(* The engine's remaining setters and get_current_simulator_configuration. *)
(***************************************************************************)
set_simulation_mode(new_mode) ==
    /\ current_simulation_mode' = new_mode
    /\ UNCHANGED <<target_patient_identifier, monitoring_device_identifier,
                   snapshot>>
    /\ UNCHANGED <<engineVars, genVars, sendVars, clientVars, lockVars, timeVars, noteVars>>

set_patient_identifier(patient_id) ==
    /\ target_patient_identifier' = patient_id
    /\ UNCHANGED <<current_simulation_mode, monitoring_device_identifier,
                   snapshot>>
    /\ UNCHANGED <<engineVars, genVars, sendVars, clientVars, lockVars, timeVars, noteVars>>

set_device_identifier(device_id) ==
    /\ monitoring_device_identifier' = device_id
    /\ UNCHANGED <<current_simulation_mode, target_patient_identifier,
                   snapshot>>
    /\ UNCHANGED <<engineVars, genVars, sendVars, clientVars, lockVars, timeVars, noteVars>>

\* get_all_custom_ranges: the dictionary the caller gets.  It is the
\* generator's own table or another dictionary, and it is in the second case
\* only that it has entries of its own.
get_all_custom_ranges_without_copy == [shares_table |-> TRUE, table |-> custom]

get_all_custom_ranges == [shares_table |-> FALSE, table |-> custom]

\* The SimulatorConfiguration object built under the lock.
get_current_simulator_configuration ==
    /\ snapshot' =
         [taken |-> TRUE,
          current_simulation_mode |-> current_simulation_mode,
          data_generation_interval_seconds |-> interval,
          target_patient_identifier |-> target_patient_identifier,
          monitoring_device_identifier |-> monitoring_device_identifier,
          is_continuous_simulation_active |-> running,
          custom_vital_ranges |-> get_all_custom_ranges]
    /\ UNCHANGED <<current_simulation_mode, target_patient_identifier,
                   monitoring_device_identifier>>
    /\ UNCHANGED <<engineVars, genVars, sendVars, clientVars, lockVars, timeVars, noteVars>>

\* The entries of the dictionary a held configuration refers to.
snapshot_ranges ==
    IF snapshot.custom_vital_ranges.shares_table
    THEN custom
    ELSE snapshot.custom_vital_ranges.table

\* The holder of a configuration assigns to, or deletes from, its
\* custom_vital_ranges: the dictionary that is changed is the one the
\* configuration refers to.
ModifySnapshotRanges(vt, r) ==
    /\ snapshot.taken
    /\ IF snapshot.custom_vital_ranges.shares_table
       THEN /\ custom' = [custom EXCEPT ![vt] = r]
            /\ UNCHANGED snapshot
       ELSE /\ snapshot' =
                 [snapshot EXCEPT !.custom_vital_ranges.table[vt] = r]
            /\ UNCHANGED custom
    /\ UNCHANGED <<current_simulation_mode, target_patient_identifier,
                   monitoring_device_identifier, sample, genCall>>
    /\ UNCHANGED <<engineVars, sendVars, clientVars, lockVars, timeVars, noteVars>>

(***************************************************************************)
(* generate_single_vital_signs_reading up to the reading it assembles, one *)
(* read of _current_simulation_mode at a time, next to set_simulation_mode *)
(* called by another thread.                                               *)
(***************************************************************************)
VitalOrder == <<"heart_rate", "bp_systolic", "bp_diastolic", "spo2",
                "temperature", "respiratory_rate">>

\* The call has returned its reading and the next call begins: nothing is
\* sampled yet.
BeginReading ==
    /\ reading_modes.simulation_mode_used # "none"
    /\ reading_modes' = NoModes
    /\ UNCHANGED <<engineVars, genVars, sendVars, clientVars, configVars, lockVars, timeVars, call_sinks, after_stop>>

\* generate_vital_sign_value(type, self._current_simulation_mode)
SampleNextVital ==
    /\ Len(reading_modes.sampled) < Len(VitalOrder)
    /\ reading_modes' = [reading_modes EXCEPT !.sampled = Append(@, current_simulation_mode)]
    /\ UNCHANGED <<engineVars, genVars, sendVars, clientVars, configVars, lockVars, timeVars, call_sinks, after_stop>>

\* create_current_timestamp_reading(..., mode=self._current_simulation_mode)
AssembleReading ==
    /\ Len(reading_modes.sampled) = Len(VitalOrder)
    /\ reading_modes.simulation_mode_used = "none"
    /\ reading_modes' = [reading_modes EXCEPT !.simulation_mode_used = current_simulation_mode]
    /\ UNCHANGED <<engineVars, genVars, sendVars, clientVars, configVars, lockVars, timeVars, call_sinks, after_stop>>

(***************************************************************************)
(* RuleEngineIntegrationClient (rule_engine_client.py).                    *)
(***************************************************************************)
\* The values of a reading next to the critical thresholds: one step below
\* the low one, the two thresholds, one step above the high one.
Around(lo, hi, step) == {lo - step, lo, hi, hi + step}

\* The readings _determine_urgency_level is called with.
UrgencyReadings ==
    [heart_rate_bpm : Around(40 * Unit, 150 * Unit, Unit),
     blood_pressure_systolic_mmhg : Around(70 * Unit, 180 * Unit, Unit),
     blood_pressure_diastolic_mmhg : {20 * Unit, 200 * Unit},
     oxygen_saturation_percentage : {84 * Unit, 85 * Unit},
     body_temperature_celsius : Around(35 * Unit, 40 * Unit, Tenth),
     respiratory_rate_per_minute : Around(8 * Unit, 30 * Unit, Unit),
     simulation_mode_used : Modes]

NoUrgency == [computed |-> FALSE]

NoSubmission == [submitted |-> FALSE]

ClientInit ==
    /\ urgency = NoUrgency
    /\ submission = NoSubmission

\* _determine_urgency_level: the checks in the order of the code, each
\* returning True, and False at the end.
determine_urgency_level_inclusive(v) ==
    \/ v.heart_rate_bpm <= 40 * Unit \/ v.heart_rate_bpm >= 150 * Unit
    \/ v.blood_pressure_systolic_mmhg <= 70 * Unit
    \/ v.blood_pressure_systolic_mmhg >= 180 * Unit
    \/ v.oxygen_saturation_percentage <= 85 * Unit
    \/ v.body_temperature_celsius <= 35 * Unit
    \/ v.body_temperature_celsius >= 40 * Unit
    \/ v.respiratory_rate_per_minute <= 8 * Unit
    \/ v.respiratory_rate_per_minute >= 30 * Unit
    \/ v.simulation_mode_used = "emergency"

determine_urgency_level(v) ==
    IF v.heart_rate_bpm < 40 * Unit \/ v.heart_rate_bpm > 150 * Unit
    THEN TRUE
    ELSE IF \/ v.blood_pressure_systolic_mmhg < 70 * Unit
            \/ v.blood_pressure_systolic_mmhg > 180 * Unit
    THEN TRUE
    ELSE IF v.oxygen_saturation_percentage < 85 * Unit
    THEN TRUE
    ELSE IF \/ v.body_temperature_celsius < 35 * Unit
            \/ v.body_temperature_celsius > 40 * Unit
    THEN TRUE
    ELSE IF \/ v.respiratory_rate_per_minute < 8 * Unit
            \/ v.respiratory_rate_per_minute > 30 * Unit
    THEN TRUE
    ELSE IF v.simulation_mode_used = "emergency"
    THEN TRUE
    ELSE FALSE

\* One call of _determine_urgency_level with the reading at hand.
DetermineUrgency ==
    /\ ~urgency.computed
    /\ urgency' = [computed |-> TRUE, reading |-> urgency.reading,
                   flag |-> determine_urgency_level(urgency.reading)]
    /\ UNCHANGED submission
    /\ UNCHANGED <<engineVars, genVars, sendVars, configVars, lockVars, timeVars, noteVars>>

\* The client is handed another reading.
NextReading ==
    /\ urgency.computed
    /\ \E v \in UrgencyReadings : urgency' = [computed |-> FALSE, reading |-> v]
    /\ submission' = NoSubmission
    /\ UNCHANGED <<engineVars, genVars, sendVars, configVars, lockVars, timeVars, noteVars>>

\* A JSON body: its top-level keys, and the value of
\* requires_immediate_processing ("absent" when the body has no such key).
Payload(keys, flag) == [keys |-> keys, requires_immediate_processing |-> flag]

JsonBoolean(b) == IF b THEN "true" ELSE "false"

\* _format_vital_signs_for_rule_engine and the update() with the metadata.
rule_engine_payload(v) ==
    Payload({"deviceId", "patientId", "timestamp", "readings", "metadata",
             "submission_source", "requires_immediate_processing",
             "data_quality_indicators"},
            JsonBoolean(determine_urgency_level(v)))

\* PatientVitalSigns.to_json_serializable_dict
to_json_serializable_dict(v) ==
    Payload({"timestamp", "vitals", "metadata"}, "absent")

\* broadcast_to_rule_engine(vital_signs_data): the payload_data it hands to
\* the retrying send, which POSTs it as the JSON body of every attempt.
rule_engine_body(v) == to_json_serializable_dict(v)

\* submit_vital_signs_for_rule_evaluation with the reading at hand: the
\* payload is built, then the reading itself goes to broadcast_to_rule_engine.
submit_vital_signs_for_rule_evaluation ==
    /\ urgency.computed
    /\ ~submission.submitted
    /\ submission' = [submitted |-> TRUE,
                      built |-> rule_engine_payload(urgency.reading),
                      body |-> rule_engine_body(urgency.reading)]
    /\ UNCHANGED urgency
    /\ UNCHANGED <<engineVars, genVars, sendVars, configVars, lockVars, timeVars, noteVars>>

(***************************************************************************)
(* The engine with its generation loop: the callbacks are those registered *)
(* before the loop is started (http_server.py registers the broadcasting   *)
(* callback at construction, main.py the logging callback at startup).     *)
(***************************************************************************)
Registrations == {<< >>, <<BroadcastSink>>, <<BroadcastSink, LogSink>>}

Init ==
    /\ EngineInit
    /\ callbacks \in Registrations
    /\ GenInit
    /\ BroadcasterInit
    /\ ClientInit
    /\ ConfigInit
    /\ LockInit
    /\ TimeInit
    /\ NoteInit

LoopStep(w) ==
    \/ LoopCheck(w)
    \/ CreateReading(w)
    \/ StoreLatest(w)
    \/ InvokeCallback(w)
    \/ NotifyDone(w)
    \/ LoopSleep(w)
    \/ LoopWake(w)

Next ==
    \/ \E s \in IntervalInputs : set_data_generation_interval(s)
    \/ start_continuous_vital_signs_simulation
    \/ stop_continuous_vital_signs_simulation
    \/ \E w \in Workers : LoopCheck(w)
    \/ \E w \in Workers : CreateReading(w)
    \/ \E w \in Workers : StoreLatest(w)
    \/ \E w \in Workers : InvokeCallback(w)
    \/ \E w \in Workers : NotifyDone(w)
    \/ \E w \in Workers : LoopSleep(w)
    \/ \E w \in Workers : LoopWake(w)
    \/ Tick

Spec == Init /\ [][Next]_vars

(***************************************************************************)
(* The generation loop under the scheduling the program runs with: every   *)
(* thread that can take a step is scheduled in the end (each loop is an OS *)
(* thread of its own), and time passes.  The interval keeps its default.   *)
(***************************************************************************)
LoopNext ==
    \/ start_continuous_vital_signs_simulation
    \/ stop_continuous_vital_signs_simulation
    \/ \E w \in Workers : LoopStep(w)
    \/ Tick

FairSpec ==
    /\ Init
    /\ [][LoopNext]_vars
    /\ \A w \in Workers : WF_vars(LoopStep(w))
    /\ WF_vars(Tick)

(***************************************************************************)
(* The generation loop with sinks that take time.                          *)
(***************************************************************************)
TimingNext ==
    \/ LoopNext
    \/ \E w \in Workers : SinkTakesTime(w)

TimingSpec == Init /\ [][TimingNext]_vars

(***************************************************************************)
(* One call of generate_single_vital_signs_reading after the other while   *)
(* the mode is set by another thread.                                      *)
(***************************************************************************)
ModeNext ==
    \/ BeginReading
    \/ SampleNextVital
    \/ AssembleReading
    \/ \E m \in Modes : set_simulation_mode(m)

ModeSpec == Init /\ [][ModeNext]_vars

(***************************************************************************)
(* The engine called on demand while callbacks are registered and removed. *)
(***************************************************************************)
NotifyInit ==
    /\ EngineInit
    /\ callbacks = << >>
    /\ GenInit
    /\ BroadcasterInit
    /\ ClientInit
    /\ ConfigInit
    /\ LockInit
    /\ TimeInit
    /\ NoteInit

NotifyNext ==
    \/ \E s \in Sinks : add_data_broadcasting_callback(s)
    \/ \E s \in Sinks : remove_data_broadcasting_callback(s)
    \/ CallerGenerate
    \/ CallerReturn
    \/ CreateReading(Caller)
    \/ StoreLatest(Caller)
    \/ InvokeCallback(Caller)
    \/ NotifyDone(Caller)

NotifySpec == NotifyInit /\ [][NotifyNext]_vars

(***************************************************************************)
(* The generation loop while the HTTP handler calls generate on demand.    *)
(***************************************************************************)
OnDemandNext ==
    \/ start_continuous_vital_signs_simulation
    \/ stop_continuous_vital_signs_simulation
    \/ \E w \in Workers : LoopStep(w)
    \/ Tick
    \/ CallerGenerate
    \/ CallerReturn
    \/ CreateReading(Caller)
    \/ StoreLatest(Caller)
    \/ InvokeCallback(Caller)
    \/ NotifyDone(Caller)

OnDemandSpec == Init /\ [][OnDemandNext]_vars

(***************************************************************************)
(* A freshly constructed engine, before anything is registered with it:    *)
(* the loop is started and stopped, readings are generated on demand, and  *)
(* the latest reading is asked for.  The callback list stays empty, so     *)
(* every notification ends at once.                                        *)
(***************************************************************************)
FreshNext ==
    \/ start_continuous_vital_signs_simulation
    \/ stop_continuous_vital_signs_simulation
    \/ \E w \in Workers : LoopCheck(w)
    \/ \E t \in Threads : CreateReading(t)
    \/ \E t \in Threads : StoreLatest(t)
    \/ \E t \in Threads : NotifyDone(t)
    \/ \E w \in Workers : LoopSleep(w)
    \/ \E w \in Workers : LoopWake(w)
    \/ Tick
    \/ CallerGenerate
    \/ CallerReturn
    \/ get_most_recent_vital_signs

FreshSpec == NotifyInit /\ [][FreshNext]_vars

(***************************************************************************)
(* A caller holds a configuration while the engine is reconfigured: the    *)
(* mode is set to emergency, the interval to 2, the identifiers are set,   *)
(* the loop is started and stopped, the heart rate gets an override and    *)
(* loses it; the holder writes to the dictionary of the configuration.     *)
(***************************************************************************)
SnapshotNext ==
    \/ get_current_simulator_configuration
    \/ set_simulation_mode(EMERGENCY_CRITICAL_PATIENT)
    \/ set_data_generation_interval(MaxIntervalInput)
    \/ \E id \in PatientIdentifiers : set_patient_identifier(id)
    \/ \E id \in DeviceIdentifiers : set_device_identifier(id)
    \/ start_continuous_vital_signs_simulation
    \/ stop_continuous_vital_signs_simulation
    \/ set_custom_vital_sign_range("heart_rate", Hundredth, 150 * Unit)
    \/ remove_custom_vital_sign_range("heart_rate")
    \/ clear_all_custom_ranges
    \/ \E r \in {NoRange, <<35 * Unit, 40 * Unit>>} :
         ModifySnapshotRanges("temperature", r)

SnapshotSpec == NotifyInit /\ [][SnapshotNext]_vars

(***************************************************************************)
(* The value generator, called directly and through the engine's setters.  *)
(***************************************************************************)
GenSpecInit ==
    /\ EngineInit
    /\ callbacks = << >>
    /\ GenInit
    /\ BroadcasterInit
    /\ ClientInit
    /\ ConfigInit
    /\ LockInit
    /\ TimeInit
    /\ NoteInit

GenNext ==
    \/ \E vt \in OverrideTypes, lo \in OverrideBounds, hi \in OverrideBounds :
         set_custom_vital_range("generator", vt, lo, hi)
    \/ \E vt \in OverrideTypes, lo \in OverrideBounds, hi \in OverrideBounds :
         set_custom_vital_sign_range(vt, lo, hi)
    \/ \E vt \in OverrideTypes : remove_custom_vital_range("generator", vt)
    \/ \E vt \in OverrideTypes : remove_custom_vital_sign_range(vt)
    \/ clear_all_custom_ranges
    \/ \E vt \in VitalTypes, mode \in Modes : GenerateValue(vt, mode)

GenSpec == GenSpecInit /\ [][GenNext]_vars

(***************************************************************************)
(* The rule engine client computing the urgency of readings on and next    *)
(* to the critical thresholds.                                             *)
(***************************************************************************)
UrgencyInit ==
    /\ EngineInit
    /\ callbacks = << >>
    /\ GenInit
    /\ BroadcasterInit
    /\ urgency \in {[computed |-> FALSE, reading |-> v] : v \in UrgencyReadings}
    /\ submission = NoSubmission
    /\ ConfigInit
    /\ LockInit
    /\ TimeInit
    /\ NoteInit

UrgencyNext == DetermineUrgency \/ NextReading

UrgencySpec == UrgencyInit /\ [][UrgencyNext]_vars

\* The client's submissions of the readings it is handed.
SubmitNext ==
    \/ UrgencyNext
    \/ submit_vital_signs_for_rule_evaluation

SubmitSpec == UrgencyInit /\ [][SubmitNext]_vars

(***************************************************************************)
(* The override table under every float a caller can pass, NaN included:   *)
(* the generator's own callers, and the engine's, which the HTTP handler   *)
(* of /api/vitals/custom-range calls with float(min_value) and             *)
(* float(max_value) of the request's JSON.                                 *)
(***************************************************************************)
FloatRangeNext ==
    \/ \E vt \in OverrideTypes, lo \in FloatBounds, hi \in FloatBounds :
         set_custom_vital_range("generator", vt, lo, hi)
    \/ \E vt \in OverrideTypes, lo \in FloatBounds, hi \in FloatBounds :
         set_custom_vital_sign_range(vt, lo, hi)
    \/ \E vt \in OverrideTypes : remove_custom_vital_range("generator", vt)
    \/ \E vt \in OverrideTypes : remove_custom_vital_sign_range(vt)
    \/ clear_all_custom_ranges

FloatRangeSpec == GenSpecInit /\ [][FloatRangeNext]_vars

(***************************************************************************)
(* The broadcaster: broadcasts and connectivity tests of one thread, and   *)
(* the setters of the flags called by another.  The URLs keep their        *)
(* defaults.                                                               *)
(***************************************************************************)
SendInit ==
    /\ EngineInit
    /\ callbacks = << >>
    /\ GenInit
    /\ BroadcasterInit
    /\ ClientInit
    /\ ConfigInit
    /\ LockInit
    /\ TimeInit
    /\ NoteInit

SendNext ==
    \/ \E b \in BOOLEAN : enable_rule_engine_broadcasting(b)
    \/ \E b \in BOOLEAN : enable_ui_broadcasting(b)
    \/ BeginBroadcast
    \/ RuleEngineIf
    \/ RuleEngineAppend
    \/ UiIf
    \/ UiAppend
    \/ BroadcastReturn
    \/ BeginTest(test_rule_engine_connectivity)
    \/ BeginTest(test_ui_connectivity)
    \/ TestReturn
    \/ PostAttempt
    \/ RetryDelay
    \/ AttemptsExhausted

SendSpec == SendInit /\ [][SendNext]_vars

(***************************************************************************)
(* The broadcaster while another thread calls every setter of its          *)
(* configuration, those of the URLs included.                              *)
(***************************************************************************)
ReconfigureNext ==
    \/ \E u \in RuleEngineUrls : set_rule_engine_endpoint(u)
    \/ \E u \in UiUrls : set_ui_endpoint(u)
    \/ SendNext

ReconfigureSpec == SendInit /\ [][ReconfigureNext]_vars

(***************************************************************************)
(* The broadcaster under the scheduling the program runs with: the thread  *)
(* in a send is scheduled in the end, and a POST returns or raises (it is  *)
(* called with a timeout).  The URLs keep their defaults.                  *)
(***************************************************************************)
SendStep ==
    \/ PostAttempt
    \/ RetryDelay
    \/ AttemptsExhausted

FairSendNext ==
    \/ \E b \in BOOLEAN : enable_rule_engine_broadcasting(b)
    \/ \E b \in BOOLEAN : enable_ui_broadcasting(b)
    \/ BeginBroadcast
    \/ RuleEngineIf
    \/ RuleEngineAppend
    \/ UiIf
    \/ UiAppend
    \/ BroadcastReturn
    \/ BeginTest(test_rule_engine_connectivity)
    \/ BeginTest(test_ui_connectivity)
    \/ TestReturn
    \/ SendStep

FairSendSpec == SendInit /\ [][FairSendNext]_vars /\ WF_vars(SendStep)

(***************************************************************************)
(* Claims about the engine.                                                *)
(***************************************************************************)

\* C1: start() returns true exactly when the engine was idle, and the engine
\* is running after it either way; stop() returns true exactly when the
\* engine was running, and the engine is idle after it either way.
C1_StartStopReturn ==
    /\ lastCall.op = "start" =>
         /\ lastCall.ret = ~lastCall.wasRunning
         /\ lastCall.changed = lastCall.ret
         /\ running
    /\ lastCall.op = "stop" =>
         /\ lastCall.ret = lastCall.wasRunning
         /\ lastCall.changed = lastCall.ret
         /\ ~running

\* start() on an engine a former start() left running: it returns false,
\* and the loop that start() spawned is alive.
C1_Witness ==
    /\ lastCall.op = "start"
    /\ lastCall.wasRunning
    /\ ~lastCall.ret
    /\ \E w \in Workers : pc[w] \notin {"idle", "done"}

\* C4: set_data_generation_interval(s) with s < 1 raises and leaves the
\* interval as it was, a valid s is stored as given, and the stored interval
\* is at least 1 in every state.
C4_IntervalValidated ==
    /\ interval >= MINIMUM_SIMULATION_INTERVAL_SECONDS
    /\ lastCall.op = "set_interval" =>
         IF lastCall.arg < MINIMUM_SIMULATION_INTERVAL_SECONDS
         THEN lastCall.raised /\ ~lastCall.changed
         ELSE ~lastCall.raised /\ interval = lastCall.arg

\* An interval of 0 is refused after the interval was set to a value of the
\* caller's: the interval is neither the default nor 1.
C4_Witness ==
    /\ lastCall.op = "set_interval"
    /\ lastCall.arg = 0
    /\ lastCall.raised
    /\ interval # DEFAULT_SIMULATION_INTERVAL_SECONDS
    /\ interval > MINIMUM_SIMULATION_INTERVAL_SECONDS

\* C8: a sleep of the loop lasts the interval that was set when the sleep
\* began, whatever the interval is set to during the sleep, and each sleep
\* is called with the interval as it is when that sleep begins.
C8_SleepKeepsItsInterval ==
    \A w \in Workers :
        /\ pc[w] = "asleep" =>
             /\ sleepDur[w] = intervalAtSleep[w]
             /\ elapsed[w] <= intervalAtSleep[w]
        /\ (pc[w] = "check" /\ intervalAtSleep[w] # 0) =>
             elapsed[w] = intervalAtSleep[w]

\* A loop thread has just woken from a sleep during which the interval was
\* changed: it slept the old interval.
C8_Witness ==
    \E w \in Workers :
        /\ pc[w] = "check"
        /\ changedInSleep[w]
        /\ interval # intervalAtSleep[w]
        /\ elapsed[w] = intervalAtSleep[w]

\* C9: when a callback raises during the notification of a reading and the
\* list is not changed meanwhile, every registered callback has been invoked
\* in order when generate returns, generate returns the reading it stored as
\* the latest, and the list of callbacks is what it was.
Returned(t) == pc[t] \in {"ret", "sleep"}

C9_SinkErrorIsolated ==
    \A t \in Threads :
        /\ (pc[t] = "notify" /\ ~cbChanged[t]) =>
             /\ callbacks = cbSnap[t]
             /\ invoked[t] = SubSeq(callbacks, 1, idx[t] - 1)
             /\ stored[t] = rd[t]
             /\ latest = rd[t]
        /\ (Returned(t) /\ raisedIn[t] # {} /\ ~cbChanged[t]) =>
             /\ callbacks = cbSnap[t]
             /\ invoked[t] = callbacks
             /\ ~exc[t]
             /\ ret[t] = rd[t]
             /\ stored[t] = rd[t]
             /\ latest = rd[t]

\* generate has returned although the first of two callbacks raised: the
\* callback registered after it was invoked too.
C9_Witness ==
    /\ pc[Caller] = "ret"
    /\ ~cbChanged[Caller]
    /\ callbacks = <<LogSink, BroadcastSink>>
    /\ raisedIn[Caller] = {LogSink}
    /\ invoked[Caller] = callbacks
    /\ ret[Caller] = rd[Caller]
    /\ ret[Caller] # 0

\* C10: a loop thread ends only when it read a cleared running flag, and
\* every cycle it begins comes back to the loop's check, after which a new
\* cycle begins while the flag is set, whatever the callbacks raise and
\* whatever deliveries fail.
InCycle == {"create", "store", "notify", "sleep", "asleep"}

C10_LoopSurvives ==
    \A w \in Workers :
        /\ [](pc[w] = "done" => ~sawRunning[w])
        /\ (pc[w] \in InCycle) ~> (pc[w] = "check")
        /\ (pc[w] = "check" /\ running /\ nextId <= MaxReadings)
             ~> (pc[w] = "create" \/ ~running \/ nextId > MaxReadings)

\* A loop thread is back at its check after a cycle in which the logging
\* callback raised, and the next cycle can begin.
C10_Witness ==
    \E w \in Workers :
        /\ pc[w] = "check"
        /\ LogSink \in raisedIn[w]
        /\ running
        /\ nextId <= MaxReadings

(***************************************************************************)
(* Claims about the value generator.                                       *)
(***************************************************************************)
Within(v, r) == r[1] <= v /\ v <= r[2]

\* The range r with each bound moved outward to the next tenth.
RoundedOutward(r) ==
    <<r[1] - (r[1] % Tenth), r[2] + ((Tenth - (r[2] % Tenth)) % Tenth)>>

C3_InvalidRangeRejected ==
    (genCall.op = "set" /\ float_ge(genCall.lo, genCall.hi)) =>
        /\ genCall.raised
        /\ custom = genCall.before

\* The engine's setter was called with min = max for a vital type that has
\* an override: it raised and the override is there as before.
C3_Witness ==
    /\ genCall.op = "set"
    /\ genCall.via = "engine"
    /\ genCall.lo = genCall.hi
    /\ genCall.raised
    /\ custom[genCall.vt] # NoRange
    /\ custom = genCall.before

(***************************************************************************)
(* Claims about the broadcaster.                                           *)
(***************************************************************************)
IsErrorStatus(o) ==
    o.exception = "None" /\ o.status \notin SUCCESS_STATUS_CODES

IsSuccess(o) == o.exception = "None" /\ o.status \in SUCCESS_STATUS_CODES

NetworkFailures == {"Timeout", "ConnectionError"}

\* C5: a response whose status is not a success code ends the send: it is
\* the last POST of the send, no delay follows it, and the send returns a
\* failed result that carries the status and an error text naming it,
\* whatever is left of the attempt budget.
C5_ErrorStatusEndsSend ==
    \A i \in 1..Len(outcomes) :
        IsErrorStatus(outcomes[i]) =>
            /\ i = Len(outcomes)
            /\ frame.at = "returned"
            /\ waited = BROADCASTING_RETRY_DELAY_SECONDS * (i - 1)
            /\ ~sendResult.was_successful
            /\ sendResult.response_status_code = outcomes[i].status
            /\ sendResult.error_message = Text("HTTP", outcomes[i].status, "")
            /\ sendResult.destination_name = frame.destination_name

\* A send with a budget of three attempts has returned after one POST that
\* was answered with HTTP 500.
C5_Witness ==
    /\ outcomes = <<Response(500)>>
    /\ frame.max_retry_attempts = MAX_BROADCASTING_RETRIES
    /\ frame.at = "returned"
    /\ ~sendResult.was_successful
    /\ sendResult.response_status_code = 500
    /\ waited = 0

\* C6: when the attempts before attempt k end in a timeout or a connection
\* error and attempt k is answered with a success status, the send returns a
\* successful result carrying that status, after exactly k POSTs.
C6_SuccessAfterNetworkFailures ==
    \A k \in 1..Len(outcomes) :
        (/\ IsSuccess(outcomes[k])
         /\ \A i \in 1..(k - 1) : outcomes[i].exception \in NetworkFailures) =>
            /\ k = Len(outcomes)
            /\ k = frame.attempt_number + 1
            /\ k <= frame.max_retry_attempts
            /\ frame.at = "returned"
            /\ sendResult.was_successful
            /\ sendResult.response_status_code = outcomes[k].status
            /\ sendResult.error_message = None
            /\ bpc \in {"rule_send", "test_send"} => Len(posted) = k

\* A send has returned success with status 200 after a timeout and a POST
\* answered with HTTP 200.
C6_Witness ==
    /\ outcomes = <<Raised("Timeout"), Response(200)>>
    /\ frame.at = "returned"
    /\ sendResult.was_successful
    /\ sendResult.response_status_code = 200
    /\ Len(posted) = 2

\* The destination names a broadcast that read the flags r and u returns
\* results for.
ExpectedDestinations(r, u) ==
    (IF r THEN <<"Rule Engine">> ELSE << >>)
        \o (IF u THEN <<"User Interface">> ELSE << >>)

\* C7: a broadcast returns one result per enabled destination, the rule
\* engine's first, and none for a disabled one; it POSTs to no destination
\* that is disabled.  (A destination is enabled when its flag is set as the
\* broadcast reads it, which is the flag's value when no setter is called
\* during the broadcast.)
C7_OneResultPerEnabledDestination ==
    bpc = "return" =>
        /\ [i \in 1..Len(results) |-> results[i].destination_name]
             = ExpectedDestinations(sawRule, sawUi)
        /\ ~flagsChanged => (sawRule = ruleEnabled /\ sawUi = uiEnabled)
        /\ ~sawRule => \A i \in 1..Len(posted) : posted[i] \notin RuleEngineUrls
        /\ ~sawUi => \A i \in 1..Len(posted) : posted[i] \notin UiUrls

\* A broadcast with the rule engine disabled and the UI enabled is about to
\* return one result, the UI's.
C7_Witness ==
    /\ bpc = "return"
    /\ ~flagsChanged
    /\ ~ruleEnabled
    /\ uiEnabled
    /\ Len(results) = 1
    /\ results[1].destination_name = "User Interface"
    /\ posted # << >>

(***************************************************************************)
(* Claims about stopping the loop.                                         *)
(***************************************************************************)
Alive(w) == pc[w] \notin {"idle", "done"}

\* C11: once stop() has cleared the running flag and while no start() sets
\* it again, a loop thread goes on with what it is in (its sleep lasts its
\* full duration, its generation runs to its end), begins no further cycle,
\* leaves only from its loop check, and in the end has terminated.
C11_StopEndsLoop ==
    /\ [][\A w \in Workers :
            /\ (pc[w] = "asleep" /\ pc'[w] # "asleep") =>
                 (pc'[w] = "check" /\ elapsed[w] = sleepDur[w])
            /\ (pc[w] # "create" /\ pc'[w] = "create") =>
                 (pc[w] = "check" /\ running)
            /\ (Alive(w) /\ pc'[w] = "done") =>
                 (pc[w] = "check" /\ ~running)]_vars
    /\ \A w \in Workers : (Alive(w) /\ ~running) ~> (pc[w] = "done" \/ running)

\* stop() returned true, and a loop thread that had generated a reading and
\* slept has terminated.
C11_Witness ==
    /\ lastCall.op = "stop"
    /\ lastCall.ret
    /\ ~running
    /\ nextId > 1
    /\ \E w \in Workers : pc[w] = "done" /\ ~sawRunning[w]

(***************************************************************************)
(* Claims about the retrying send.                                         *)
(***************************************************************************)
InSend == Sending /\ frame.at # "returned"

\* C12: whatever the attempts end in, a send makes at most max_retry_attempts
\* POSTs, raises nothing to its caller, returns, and returns one result for
\* the whole call: the result is set once, when the call returns.
C12_SendReturnsOneResult ==
    /\ [](Len(outcomes) <= frame.max_retry_attempts)
    /\ [](frame.at # "raised")
    /\ [](frame.at = "returned" =>
            /\ sendResult # NoResult
            /\ sendResult.destination_name = frame.destination_name)
    /\ [](InSend => sendResult = NoResult)
    /\ [][/\ (frame.at # "returned" /\ frame'.at = "returned") =>
               (sendResult = NoResult /\ sendResult' # NoResult)
          /\ (frame.at = "returned" /\ frame'.at = "returned") =>
               sendResult' = sendResult
          /\ Len(results') <= Len(results) + 1]_vars
    /\ InSend ~> (frame.at = "returned")

\* A send has returned after three POSTs that raised, two of them an
\* exception that is none of the requests library's.
C12_Witness ==
    /\ outcomes = <<Raised("Exception"), Raised("RequestException"),
                    Raised("Exception")>>
    /\ frame.max_retry_attempts = RULE_ENGINE_REQUEST_RETRY_COUNT
    /\ frame.at = "returned"
    /\ sendResult # NoResult
    /\ ~sendResult.was_successful

Is2xx(status) == status \in 200..299

\* C13: a response with any 2xx status makes the send return a successful
\* result carrying that status, and a response with a status outside 2xx
\* never yields a successful result.
C13_Every2xxSucceeds ==
    \A i \in 1..Len(outcomes) :
        outcomes[i].exception = "None" =>
            IF Is2xx(outcomes[i].status)
            THEN /\ i = Len(outcomes)
                 /\ frame.at = "returned"
                 /\ sendResult.was_successful
                 /\ sendResult.response_status_code = outcomes[i].status
            ELSE ~sendResult.was_successful

\* C14: when every attempt of a send raised, the send returns, after
\* max_retry_attempts POSTs, a failed result without a status code whose
\* error text names the number of attempts and the description of what the
\* last attempt raised.
C14_LastErrorReported ==
    (/\ frame.at = "returned"
     /\ \A i \in 1..Len(outcomes) : outcomes[i].exception # "None") =>
        /\ Len(outcomes) = frame.max_retry_attempts
        /\ ~sendResult.was_successful
        /\ sendResult.response_status_code = 0
        /\ sendResult.error_message
             = Text("Failed after attempts", frame.max_retry_attempts, "")
        /\ sendResult.last_error
             = exception_text(frame, outcomes[Len(outcomes)].exception)

\* A send of three attempts has returned after two timeouts and a
\* connection error: its error text names the connection error.
C14_Witness ==
    /\ frame.at = "returned"
    /\ outcomes = <<Raised("Timeout"), Raised("Timeout"),
                    Raised("ConnectionError")>>
    /\ sendResult.last_error = Text("Connection error to", 0, frame.endpoint_url)
    /\ sendResult.response_status_code = 0

(***************************************************************************)
(* Claims about the broadcast to the two destinations.                     *)
(***************************************************************************)

\* C15: whatever the rule engine's send returned, the broadcast goes on to
\* the UI's if; with the UI enabled it sends to the UI with the UI's URL,
\* timeout and budget, in a send that begins with nothing left of the rule
\* engine's; and the rule engine's result stays what it was.
C15_UiAttemptIndependent ==
    /\ [][/\ (bpc = "rule_send" /\ bpc' # "rule_send") =>
               (bpc' = "ui_if" /\ results' = Append(results, sendResult))
          /\ (bpc = "ui_if" /\ bpc' # "ui_if") =>
               IF uiEnabled
               THEN /\ bpc' = "ui_send"
                    /\ frame' = Frame("User Interface", uiUrl,
                                      UI_CONNECTION_TIMEOUT_SECONDS,
                                      MAX_BROADCASTING_RETRIES)
                    /\ sendResult' = NoResult
                    /\ outcomes' = << >>
                    /\ waited' = 0
               ELSE bpc' = "return"
          /\ (bpc \in {"ui_if", "ui_send"} /\ bpc' \in {"ui_send", "return"}) =>
               SubSeq(results', 1, Len(results)) = results]_vars
    /\ [](bpc = "ui_send" =>
            /\ frame.destination_name = "User Interface"
            /\ frame.endpoint_url \in UiUrls
            /\ frame.timeout_seconds = UI_CONNECTION_TIMEOUT_SECONDS
            /\ frame.max_retry_attempts = MAX_BROADCASTING_RETRIES)

\* The send to the UI has succeeded at its first attempt in a broadcast
\* whose send to the rule engine ran out of attempts.
C15_Witness ==
    /\ bpc = "ui_send"
    /\ frame.at = "returned"
    /\ Len(results) = 1
    /\ results[1].destination_name = "Rule Engine"
    /\ ~results[1].was_successful
    /\ results[1].response_status_code = 0
    /\ outcomes = <<Response(200)>>
    /\ sendResult.was_successful

\* C16: a broadcast uses the configuration it began with (the rule engine's
\* flag and URL are read by its first statements): it sends to the UI
\* exactly when the UI was enabled then, and to the URL the UI had then,
\* whatever setters are called while it is under way.
C16_ConfigurationFixedAtBegin ==
    /\ bpc = "ui_send" =>
         (uiAtBegin.enabled /\ frame.endpoint_url = uiAtBegin.url)
    /\ bpc = "return" => sawUi = uiAtBegin.enabled

(***************************************************************************)
(* Claims about the order of readings.                                     *)
(***************************************************************************)

\* C17: no sink is invoked with a reading created earlier after it was
\* invoked with a reading created later: when a thread invokes a sink with
\* its reading, no on-demand call or loop running beside it (one of the two
\* being the on-demand caller) has invoked that sink with a later reading.
C17_SinksSeeGenerationOrder ==
    [][\A t \in Threads :
         (pc[t] = "notify" /\ Len(invoked'[t]) = Len(invoked[t]) + 1) =>
            LET s == invoked'[t][Len(invoked'[t])] IN
            \A u \in Threads \ {t} :
                (Caller \in {t, u} /\ rd[u] > rd[t]) =>
                    s \notin Range(invoked[u])]_vars

(***************************************************************************)
(* Claims about the resolution of ranges and the override table.           *)
(***************************************************************************)
\* The entry of the static table of a mode, read from the three tables of
\* config_settings.py.
StaticEntry(mode, vt) ==
    CASE mode = "normal" -> NORMAL_VITAL_RANGES[vt]
      [] mode = "abnormal" -> ABNORMAL_VITAL_RANGES[vt]
      [] mode = "emergency" -> EMERGENCY_VITAL_RANGES[vt]

\* What resolution has to give for a type and a mode under an override table.
ResolvedIn(table, vt, mode) ==
    IF table[vt] # NoRange THEN table[vt] ELSE StaticEntry(mode, vt)

\* C18: get_vital_range_for_mode returns the override of the type when one
\* is set, whatever the mode, and the entry of the mode's static table
\* otherwise; a call that sets an override for one type makes resolution
\* return its bounds for that type in every mode and leaves the range
\* resolved for every other type as it was before the call.
C18_OverrideHasPrecedence ==
    /\ \A vt \in VitalTypes, mode \in Modes :
         get_vital_range_for_mode(vt, mode) = ResolvedIn(custom, vt, mode)
    /\ (genCall.op = "set" /\ ~genCall.raised) =>
         /\ \A mode \in Modes :
              get_vital_range_for_mode(genCall.vt, mode)
                  = <<genCall.lo, genCall.hi>>
         /\ \A vt \in VitalTypes \ {genCall.vt}, mode \in Modes :
              get_vital_range_for_mode(vt, mode)
                  = ResolvedIn(genCall.before, vt, mode)

\* An override of the heart rate was just set while the temperature has
\* none: the heart rate resolves to the override in the emergency mode, the
\* temperature to the entry of the abnormal table.
C18_Witness ==
    /\ genCall.op = "set"
    /\ ~genCall.raised
    /\ genCall.vt = "heart_rate"
    /\ custom["temperature"] = NoRange
    /\ get_vital_range_for_mode("heart_rate", EMERGENCY_CRITICAL_PATIENT)
           = <<Hundredth, 150 * Unit>>
    /\ get_vital_range_for_mode("temperature", ABNORMAL_CONDITION_PATIENT)
           = <<35 * Unit, 40 * Unit>>


\* C19: a call that removes the override of a type, on the generator or on
\* the engine, returns TRUE exactly when the table it found had an override
\* for the type; afterwards the type has no override and resolves to the
\* entry of the mode's static table in every mode, and the overrides of the
\* other types are as they were; when it returns FALSE the table is as the
\* call found it.
C19_RemoveReportsAndRestores ==
    genCall.op = "remove" =>
        /\ ~genCall.raised
        /\ genCall.ret = (genCall.before[genCall.vt] # NoRange)
        /\ custom[genCall.vt] = NoRange
        /\ \A mode \in Modes :
             get_vital_range_for_mode(genCall.vt, mode)
                 = StaticEntry(mode, genCall.vt)
        /\ \A vt \in VitalTypes \ {genCall.vt} :
             custom[vt] = genCall.before[vt]
        /\ ~genCall.ret => custom = genCall.before

\* The engine removed the override of the heart rate, which was set, while
\* the temperature keeps its own: the call returned TRUE.
C19_Witness ==
    /\ genCall.op = "remove"
    /\ genCall.via = "engine"
    /\ genCall.vt = "heart_rate"
    /\ genCall.ret
    /\ genCall.before["heart_rate"] # NoRange
    /\ custom["heart_rate"] = NoRange
    /\ custom["temperature"] # NoRange
    /\ get_vital_range_for_mode("heart_rate", NORMAL_HEALTHY_PATIENT)
           = <<60 * Unit, 100 * Unit>>


\* min < max on floats: FALSE as soon as one side is NaN.
Below(a, b) == a # NaN /\ b # NaN /\ a < b

\* C20: in every reachable state every entry of the three static tables and
\* every entry of the override table has min < max, whatever calls of the
\* setters (accepted or rejected), of remove and of clear came before.
C20_EveryRangeOrdered ==
    /\ \A mode \in Modes, vt \in VitalTypes :
         Below(StaticEntry(mode, vt)[1], StaticEntry(mode, vt)[2])
    /\ \A vt \in VitalTypes :
         custom[vt] # NoRange => Below(custom[vt][1], custom[vt][2])


(***************************************************************************)
(* Claims about the three samplers.                                        *)
(***************************************************************************)
\* The range a sample of the normal mode is drawn from: 15% of the width on
\* either side of the midpoint of r.
NormalWindow(r) ==
    <<(r[1] + r[2]) \div 2 - (15 * (r[2] - r[1])) \div 100,
      (r[1] + r[2]) \div 2 + (15 * (r[2] - r[1])) \div 100>>

LowerPart(p, r) == <<r[1], r[1] + (p * (r[2] - r[1])) \div 100>>
UpperPart(p, r) == <<r[2] - (p * (r[2] - r[1])) \div 100, r[2]>>

C24_UrgencyExactlyBeyondThresholds ==
    urgency.computed =>
        LET v == urgency.reading IN
        urgency.flag =
            (\/ v.heart_rate_bpm \in Int \ (40 * Unit .. 150 * Unit)
             \/ v.blood_pressure_systolic_mmhg \in Int \ (70 * Unit .. 180 * Unit)
             \/ v.oxygen_saturation_percentage \in Int \ Nat
             \/ v.oxygen_saturation_percentage \in 0 .. (85 * Unit - 1)
             \/ v.body_temperature_celsius \in Int \ (35 * Unit .. 40 * Unit)
             \/ v.respiratory_rate_per_minute \in Int \ (8 * Unit .. 30 * Unit)
             \/ v.simulation_mode_used = EMERGENCY_CRITICAL_PATIENT)

\* A reading of the abnormal mode with every value on a threshold (heart
\* rate 40, systolic 180, SpO2 85, temperature 35.0, respiratory rate 30):
\* the flag is FALSE.
C24_Witness ==
    /\ urgency.computed
    /\ urgency.reading.heart_rate_bpm = 40 * Unit
    /\ urgency.reading.blood_pressure_systolic_mmhg = 180 * Unit
    /\ urgency.reading.oxygen_saturation_percentage = 85 * Unit
    /\ urgency.reading.body_temperature_celsius = 35 * Unit
    /\ urgency.reading.respiratory_rate_per_minute = 30 * Unit
    /\ urgency.reading.simulation_mode_used = ABNORMAL_CONDITION_PATIENT
    /\ ~urgency.flag


(***************************************************************************)
(* Claims about the engine's state.                                        *)
(***************************************************************************)
\* C25: a freshly constructed engine is idle (not running, no loop thread),
\* in the normal mode, with the interval 10, without sinks, without
\* overrides and without a latest reading; the latest reading stays None
\* until a generation cycle stores one, every store leaves a reading there,
\* it is never None again, and get_most_recent_vital_signs returns what is
\* there.
C25_FreshEngineHasNoReading ==
    /\ /\ ~running
       /\ \A t \in Threads : pc[t] = "idle"
       /\ current_simulation_mode = NORMAL_HEALTHY_PATIENT
       /\ interval = 10
       /\ callbacks = << >>
       /\ \A vt \in VitalTypes : custom[vt] = NoRange
       /\ latest = 0
    /\ [][/\ latest' # latest =>
               \E t \in Threads : pc[t] = "store" /\ pc'[t] = "notify"
          /\ \A t \in Threads :
               (pc[t] = "store" /\ pc'[t] = "notify") =>
                   (latest' = rd[t] /\ latest' # 0)
          /\ latest # 0 => latest' # 0
          /\ (lastCall'.op = "get_latest" /\ lastCall' # lastCall) =>
               /\ lastCall'.arg = latest
               /\ lastCall'.ret = (latest # 0)
               /\ latest' = latest]_vars

\* The getter returned None after a generate call had been started and
\* created its reading, but had not stored it yet.
C25_Witness ==
    /\ lastCall.op = "get_latest"
    /\ lastCall.arg = 0
    /\ latest = 0
    /\ \E t \in Threads : pc[t] = "store" /\ rd[t] # 0


\* The number of registrations of s in the list q.
Registered(q, s) == Cardinality({i \in 1..Len(q) : q[i] = s})

\* C26: remove_data_broadcasting_callback(fn) returns TRUE exactly when fn
\* was in the list; it then takes the first registration of fn out of the
\* list and leaves every other entry where it was, and leaves the list alone
\* when it returns FALSE; a generation cycle only invokes sinks that are in
\* the list at that moment, so a sink without a registration is not invoked.
C26_RemoveTakesOneRegistration ==
    /\ [](lastCall.op = "remove_sink" =>
            LET q == lastCall.before
                s == lastCall.sink
            IN  /\ lastCall.ret = (s \in Range(q))
                /\ ~lastCall.ret => callbacks = q
                /\ lastCall.ret =>
                     /\ Registered(callbacks, s) = Registered(q, s) - 1
                     /\ \A x \in Sinks \ {s} :
                          Registered(callbacks, x) = Registered(q, x)
                     /\ \E i \in 1..Len(q) :
                          /\ q[i] = s
                          /\ \A j \in 1..(i - 1) : q[j] # s
                          /\ callbacks = SubSeq(q, 1, i - 1)
                                           \o SubSeq(q, i + 1, Len(q)))
    /\ [][\A t \in Threads :
            Len(invoked'[t]) = Len(invoked[t]) + 1 =>
                /\ pc[t] = "notify"
                /\ invoked'[t][Len(invoked'[t])] \in Range(callbacks)]_vars

\* The logging callback was registered twice and one registration was
\* removed: the call returned TRUE, one registration is left, and a cycle
\* that began afterwards has invoked it.
C26_Witness ==
    /\ lastCall.op = "remove_sink"
    /\ lastCall.ret
    /\ lastCall.sink = LogSink
    /\ lastCall.before = <<LogSink, LogSink>>
    /\ callbacks = <<LogSink>>
    /\ ~cbChanged[Caller]
    /\ invoked[Caller] = <<LogSink>>


\* What the holder of the configuration sees in it, and the same fields of
\* the engine.
SnapshotView ==
    IF snapshot.taken
    THEN [snapshot EXCEPT !.custom_vital_ranges = snapshot_ranges]
    ELSE NoSnapshot

EngineView ==
    [taken |-> TRUE,
     current_simulation_mode |-> current_simulation_mode,
     data_generation_interval_seconds |-> interval,
     target_patient_identifier |-> target_patient_identifier,
     monitoring_device_identifier |-> monitoring_device_identifier,
     is_continuous_simulation_active |-> running,
     custom_vital_ranges |-> custom]

\* C27: what a held configuration shows changes only when a new one is
\* returned, which shows the engine's state of that moment and changes
\* nothing of the engine, or when its holder writes to its dictionary of
\* custom ranges, which changes nothing of the engine either; the setters of
\* the mode, the interval, the identifiers and the overrides, and start and
\* stop, leave it as it was returned.
C27_SnapshotIsACopy ==
    [][\/ SnapshotView' = SnapshotView
       \/ /\ SnapshotView' = EngineView
          /\ EngineView' = EngineView
       \/ /\ snapshot.taken
          /\ EngineView' = EngineView
          /\ [SnapshotView' EXCEPT !.custom_vital_ranges = custom]
               = [SnapshotView EXCEPT !.custom_vital_ranges = custom]]_vars

\* A configuration returned by a fresh engine still shows the normal mode,
\* the interval 10, the first identifiers, a stopped engine and no override,
\* plus the temperature range its holder wrote into it, while the engine is
\* in the emergency mode, runs, has the interval 2, the other identifiers
\* and an override of the heart rate but none of the temperature.
C27_Witness ==
    /\ snapshot.taken
    /\ snapshot.current_simulation_mode = NORMAL_HEALTHY_PATIENT
    /\ snapshot.data_generation_interval_seconds = 10
    /\ snapshot.target_patient_identifier = DEFAULT_PATIENT_IDENTIFIER
    /\ snapshot.monitoring_device_identifier = DEFAULT_DEVICE_IDENTIFIER
    /\ ~snapshot.is_continuous_simulation_active
    /\ snapshot_ranges["heart_rate"] = NoRange
    /\ snapshot_ranges["temperature"] = <<35 * Unit, 40 * Unit>>
    /\ current_simulation_mode = EMERGENCY_CRITICAL_PATIENT
    /\ interval = MaxIntervalInput
    /\ target_patient_identifier = "patient_002"
    /\ monitoring_device_identifier = "BioHarness_Sim_002"
    /\ running
    /\ custom["heart_rate"] # NoRange
    /\ custom["temperature"] = NoRange


(***************************************************************************)
(* _thread_safety_lock.  Each method of VitalSignsSimulationEngine is the  *)
(* sequence of its statements that take the lock, release it, read or      *)
(* write a field of the engine, invoke the sinks or sleep, in source       *)
(* order; a thread runs a method one statement at a time.                  *)
(***************************************************************************)
\* The fields the lock is there for (mode, interval, identifiers, override
\* table, latest reading, running flag); the callback list is a field too.
EngineStateFields ==
    {"_current_simulation_mode", "_data_generation_interval_seconds",
     "_target_patient_identifier", "_monitoring_device_identifier",
     "_custom_vital_ranges", "_most_recent_vital_signs",
     "_is_continuous_simulation_running"}

Statement(op, field, line) ==
    [op |-> op, field |-> field, line |-> line,
     leave_if |-> "never", to |-> 0, value |-> FALSE]

Read(field, line) == Statement("read", field, line)

Write(field, line) == Statement("write", field, line)

\* `with self._thread_safety_lock:` around the statements of inner.
WithLock(line, inner, last) ==
    <<Statement("acquire", "none", line)>> \o inner
        \o <<Statement("release", "none", last)>>

\* generate_vital_sign_value(type, self._current_simulation_mode): the mode
\* is read for the argument, the override table in get_vital_range_for_mode.
SampleReads(line) ==
    <<Read("_current_simulation_mode", line), Read("_custom_vital_ranges", line)>>

\* The mutant: the sinks are notified before the lock is released.
generate_notifying_under_lock ==
    SampleReads(141) \o SampleReads(145) \o SampleReads(149)
        \o SampleReads(153) \o SampleReads(157) \o SampleReads(161)
        \o <<Read("_current_simulation_mode", 172),
             Read("_monitoring_device_identifier", 173),
             Read("_target_patient_identifier", 174)>>
        \o WithLock(178, <<Write("_most_recent_vital_signs", 179),
                           Read("_data_broadcasting_callbacks", 278),
                           Statement("sink", "none", 280)>>, 182)

generate_single_vital_signs_reading_body ==
    SampleReads(141) \o SampleReads(145) \o SampleReads(149)
        \o SampleReads(153) \o SampleReads(157) \o SampleReads(161)
        \o <<Read("_current_simulation_mode", 172),
             Read("_monitoring_device_identifier", 173),
             Read("_target_patient_identifier", 174)>>
        \o WithLock(178, <<Write("_most_recent_vital_signs", 179)>>, 179)
        \o <<Read("_data_broadcasting_callbacks", 278),
             Statement("sink", "none", 280)>>

\* `while self._is_continuous_simulation_running:` leaves the loop when the
\* flag is clear; the last statement goes back to the test.
continuous_simulation_loop_body ==
    <<[Read("_is_continuous_simulation_running", 262) EXCEPT
            !.leave_if = "clear",
            !.to = Len(generate_single_vital_signs_reading_body) + 5]>>
        \o generate_single_vital_signs_reading_body
        \o <<Read("_data_generation_interval_seconds", 265),
             Statement("sleep", "none", 265),
             [Statement("again", "none", 262) EXCEPT !.to = 1]>>

start_continuous_vital_signs_simulation_body ==
    WithLock(220,
        <<[Read("_is_continuous_simulation_running", 221) EXCEPT
                !.leave_if = "set", !.to = 5],
          [Write("_is_continuous_simulation_running", 224) EXCEPT
                !.value = TRUE],
          Statement("spawn", "none", 230)>>, 231)

stop_continuous_vital_signs_simulation_body ==
    WithLock(240,
        <<[Read("_is_continuous_simulation_running", 241) EXCEPT
                !.leave_if = "clear", !.to = 4],
          [Write("_is_continuous_simulation_running", 244) EXCEPT
                !.value = FALSE]>>, 245)

get_current_simulator_configuration_body ==
    WithLock(203,
        <<Read("_current_simulation_mode", 205),
          Read("_data_generation_interval_seconds", 206),
          Read("_target_patient_identifier", 207),
          Read("_monitoring_device_identifier", 208),
          Read("_is_continuous_simulation_running", 209),
          Read("_custom_vital_ranges", 210)>>, 211)

CallerMethods ==
    {"set_simulation_mode", "set_data_generation_interval",
     "set_patient_identifier", "set_device_identifier",
     "add_data_broadcasting_callback", "remove_data_broadcasting_callback",
     "set_custom_vital_sign_range", "remove_custom_vital_sign_range",
     "generate_single_vital_signs_reading", "get_most_recent_vital_signs",
     "get_current_simulator_configuration",
     "start_continuous_vital_signs_simulation",
     "stop_continuous_vital_signs_simulation",
     "is_simulation_currently_running"}

Body(method) ==
    CASE method = "set_simulation_mode" ->
            WithLock(51, <<Write("_current_simulation_mode", 52)>>, 52)
      [] method = "set_data_generation_interval" ->
            WithLock(64, <<Write("_data_generation_interval_seconds", 65)>>, 65)
      [] method = "set_patient_identifier" ->
            WithLock(69, <<Write("_target_patient_identifier", 70)>>, 70)
      [] method = "set_device_identifier" ->
            WithLock(74, <<Write("_monitoring_device_identifier", 75)>>, 75)
      [] method = "add_data_broadcasting_callback" ->
            <<Write("_data_broadcasting_callbacks", 87)>>
      [] method = "remove_data_broadcasting_callback" ->
            <<Write("_data_broadcasting_callbacks", 100)>>
      [] method = "set_custom_vital_sign_range" ->
            <<Write("_custom_vital_ranges", 119)>>
      [] method = "remove_custom_vital_sign_range" ->
            <<Write("_custom_vital_ranges", 130)>>
      [] method = "generate_single_vital_signs_reading" ->
            generate_single_vital_signs_reading_body
      [] method = "get_most_recent_vital_signs" ->
            WithLock(193, <<Read("_most_recent_vital_signs", 194)>>, 194)
      [] method = "get_current_simulator_configuration" ->
            get_current_simulator_configuration_body
      [] method = "start_continuous_vital_signs_simulation" ->
            start_continuous_vital_signs_simulation_body
      [] method = "stop_continuous_vital_signs_simulation" ->
            stop_continuous_vital_signs_simulation_body
      [] method = "is_simulation_currently_running" ->
            WithLock(254, <<Read("_is_continuous_simulation_running", 255)>>, 255)
      [] method = "_continuous_simulation_loop" ->
            continuous_simulation_loop_body

InMethod(t) == at[t] # Outside

\* The statement thread t executes next; asked only of a thread in a method.
Current(t) == Body(at[t].method)[at[t].next]

IsAt(t, op) == InMethod(t) /\ Current(t).op = op

\* After a statement: the next one, or out of the method after the last.
After(t, n) ==
    IF n > Len(Body(at[t].method)) THEN Outside
    ELSE [method |-> at[t].method, next |-> n]

Leaves(s) ==
    \/ s.leave_if = "set" /\ running
    \/ s.leave_if = "clear" /\ ~running

\* A caller thread calls a method of the engine.  One loop thread is
\* modelled: start is not called while it would create a second one.
Enter(t, method) ==
    /\ ~InMethod(t)
    /\ method = "start_continuous_vital_signs_simulation" =>
            (running \/ ~InMethod(LoopThread))
    /\ at' = [at EXCEPT ![t] = [method |-> method, next |-> 1]]
    /\ UNCHANGED <<lock_holders, engineVars, genVars, sendVars, clientVars, configVars, timeVars, noteVars>>

\* threading.Lock: acquire blocks while any thread holds the lock.
Acquire(t) ==
    /\ IsAt(t, "acquire")
    /\ lock_holders = {}
    /\ lock_holders' = {t}
    /\ at' = [at EXCEPT ![t] = After(t, at[t].next + 1)]
    /\ UNCHANGED <<engineVars, genVars, sendVars, clientVars, configVars, timeVars, noteVars>>

Release(t) ==
    /\ IsAt(t, "release")
    /\ lock_holders' = lock_holders \ {t}
    /\ at' = [at EXCEPT ![t] = After(t, at[t].next + 1)]
    /\ UNCHANGED <<engineVars, genVars, sendVars, clientVars, configVars, timeVars, noteVars>>

ReadField(t) ==
    /\ IsAt(t, "read")
    /\ at' = [at EXCEPT ![t] =
                IF Leaves(Current(t)) THEN After(t, Current(t).to)
                ELSE After(t, at[t].next + 1)]
    /\ UNCHANGED <<lock_holders, engineVars, genVars, sendVars, clientVars, configVars, timeVars, noteVars>>

WriteField(t) ==
    /\ IsAt(t, "write")
    /\ running' = IF Current(t).field = "_is_continuous_simulation_running"
                  THEN Current(t).value ELSE running
    /\ at' = [at EXCEPT ![t] = After(t, at[t].next + 1)]
    /\ UNCHANGED <<interval, latest, callbacks, threadVars, nextId, lastCall, obsVars>>
    /\ UNCHANGED <<lock_holders, genVars, sendVars, clientVars, configVars, timeVars, noteVars>>

\* self._simulation_thread.start(): the loop thread begins at its test.
Spawn(t) ==
    /\ IsAt(t, "spawn")
    /\ ~InMethod(LoopThread)
    /\ at' = [at EXCEPT ![t] = After(t, at[t].next + 1),
                        ![LoopThread] = [method |-> "_continuous_simulation_loop",
                                         next |-> 1]]
    /\ UNCHANGED <<lock_holders, engineVars, genVars, sendVars, clientVars, configVars, timeVars, noteVars>>

\* The sinks return (after any time, deliveries and retry delays included).
SinksReturn(t) ==
    /\ IsAt(t, "sink")
    /\ at' = [at EXCEPT ![t] = After(t, at[t].next + 1)]
    /\ UNCHANGED <<lock_holders, engineVars, genVars, sendVars, clientVars, configVars, timeVars, noteVars>>

SleepEnds(t) ==
    /\ IsAt(t, "sleep")
    /\ at' = [at EXCEPT ![t] = After(t, at[t].next + 1)]
    /\ UNCHANGED <<lock_holders, engineVars, genVars, sendVars, clientVars, configVars, timeVars, noteVars>>

Again(t) ==
    /\ IsAt(t, "again")
    /\ at' = [at EXCEPT ![t] = After(t, Current(t).to)]
    /\ UNCHANGED <<lock_holders, engineVars, genVars, sendVars, clientVars, configVars, timeVars, noteVars>>

\* The statements that do not wait for a sink or a sleep to end.
Proceed(t) ==
    \/ Acquire(t)
    \/ Release(t)
    \/ ReadField(t)
    \/ WriteField(t)
    \/ Spawn(t)
    \/ Again(t)

\* Each statement that does not wait is eventually executed; a sink or a
\* sleep may last for ever.
LockNext ==
    \/ \E t \in CallerThreads, method \in CallerMethods : Enter(t, method)
    \/ \E t \in LockThreads : Proceed(t)
    \/ \E t \in LockThreads : SinksReturn(t)
    \/ \E t \in LockThreads : SleepEnds(t)

LockSpec ==
    /\ Init
    /\ [][LockNext]_vars
    /\ \A t \in LockThreads : WF_vars(Proceed(t))

(***************************************************************************)
(* Claims about the threads and the lock.                                  *)
(***************************************************************************)
\* C28: at any time at most one loop thread is alive, and a loop thread
\* begins a generation cycle only while no other loop thread is alive,
\* whatever the order of the calls of start() and stop() and of the steps of
\* the loops.
C28_AtMostOneLoop ==
    /\ [](Cardinality({w \in Workers : Alive(w)}) <= 1)
    /\ [][\A w \in Workers :
            (pc[w] = "check" /\ pc'[w] = "create") =>
                \A v \in Workers \ {w} : ~Alive(v)]_vars

\* C29: every read and every write of the engine state (mode, interval,
\* patient and device identifiers, override table, latest reading, running
\* flag) is performed while the thread that performs it holds the lock.
C29_EveryAccessUnderLock ==
    [][\A t \in LockThreads :
          (/\ InMethod(t)
           /\ at'[t] # at[t]
           /\ Current(t).op \in {"read", "write"}
           /\ Current(t).field \in EngineStateFields) => t \in lock_holders]_vars

QuickMethods == CallerMethods \ {"generate_single_vital_signs_reading"}

\* C30: a thread that invokes the sinks (deliveries and retry delays
\* included), or is outside the engine's methods, does not hold the lock,
\* and a thread that holds it is at a statement that does not wait; so a
\* setter, start(), stop() or a getter called while the loop thread's sink
\* invocation is in progress completes even if that invocation never ends.
C30_LockNotHeldInSink ==
    /\ [](\A t \in LockThreads :
            /\ (IsAt(t, "sink") \/ ~InMethod(t)) => t \notin lock_holders
            /\ t \in lock_holders =>
                    Current(t).op \in {"read", "write", "spawn", "release"})
    /\ \A u \in CallerThreads :
            (IsAt(LoopThread, "sink") /\ InMethod(u) /\ at[u].method \in QuickMethods)
                ~> (~InMethod(u) \/ ~IsAt(LoopThread, "sink"))

\* A setter holds the lock and is about to return while the loop thread is
\* in a sink invocation.
C30_Witness ==
    /\ IsAt(LoopThread, "sink")
    /\ at["http_handler"].method = "set_simulation_mode"
    /\ IsAt("http_handler", "release")
    /\ lock_holders = {"http_handler"}

(***************************************************************************)
(* Claims about the timing of the loop, the order of store and notify, and *)
(* the retry delays.                                                       *)
(***************************************************************************)
\* C31: a slow sink does not delay the next cycle: when a loop thread starts
\* the cycle after a reading, one interval (the argument of its sleep) has
\* passed since that reading was created, whatever time its sinks took.
C31_NextCycleOneIntervalAfterReading ==
    [][\A w \in Workers :
          (pc[w] = "check" /\ pc'[w] = "create" /\ sleepDur[w] > 0) =>
              sinkSeconds[w] + elapsed[w] = sleepDur[w]]_vars

\* C32: the reading is stored as latest before any sink is invoked with it:
\* a thread invokes sinks only after its store, which puts its reading R
\* into latest, and from then until its notification ends latest changes only
\* by the store of another thread, so that while a sink runs with R the
\* getter returns R or a reading stored after R.
C32_StoredBeforeSinks ==
    /\ [](\A t \in Threads :
            (pc[t] = "notify" \/ invoked[t] # << >>) =>
                (rd[t] # 0 /\ stored[t] = rd[t] /\ latest # 0))
    /\ [][\A t \in Threads :
            /\ (pc[t] = "store" /\ pc'[t] = "notify") => latest' = rd[t]
            /\ invoked'[t] # invoked[t] /\ invoked'[t] # << >> =>
                    (pc[t] = "notify" /\ stored[t] = rd[t])
            /\ (pc[t] = "notify" /\ latest' # latest) =>
                    \E u \in Threads \ {t} :
                        /\ pc[u] = "store" /\ pc'[u] = "notify"
                        /\ latest' = rd[u]]_vars

\* A sink has run with the loop's reading while the latest reading is
\* already the one the on-demand caller stored after it.
C32_Witness ==
    \E w \in Workers :
        /\ pc[w] = "notify"
        /\ invoked[w] # << >>
        /\ latest = rd[Caller]
        /\ latest # rd[w]
        /\ pc[Caller] = "notify"

\* C33: the retrying send sleeps the fixed delay after an attempt that ended
\* in an exception unless that attempt was the last of the budget, and never
\* after a response: a send that returns has slept once for each attempt but
\* its last, only its last attempt can have got a response, and a send whose
\* last attempt ended in an exception has used the whole budget.
C33_DelayBetweenAttemptsOnly ==
    /\ [](frame.at = "returned" =>
            /\ outcomes # << >>
            /\ waited = BROADCASTING_RETRY_DELAY_SECONDS * (Len(outcomes) - 1)
            /\ \A i \in 1..(Len(outcomes) - 1) : outcomes[i].exception # "None"
            /\ outcomes[Len(outcomes)].exception # "None" =>
                    Len(outcomes) = frame.max_retry_attempts)
    /\ [][waited' > waited =>
            /\ waited' = waited + BROADCASTING_RETRY_DELAY_SECONDS
            /\ outcomes # << >>
            /\ outcomes[Len(outcomes)].exception # "None"
            /\ Len(outcomes) < frame.max_retry_attempts]_vars

\* A send to the rule engine has used its three attempts and returned after
\* two delays.
C33_Witness ==
    /\ frame.at = "returned"
    /\ Len(outcomes) = MAX_BROADCASTING_RETRIES
    /\ outcomes[Len(outcomes)].exception # "None"
    /\ waited = 2 * BROADCASTING_RETRY_DELAY_SECONDS

\* C34: after a generation cycle in which a sink raised, the loop sleeps the
\* error pause of 1 second, not the configured interval.
C34_ErrorPauseAfterSinkError ==
    [][\A w \in Workers :
          (pc[w] = "sleep" /\ pc'[w] = "asleep" /\ raisedIn[w] # {}) =>
              sleepDur'[w] = LOOP_ERROR_PAUSE_SECONDS]_vars

(***************************************************************************)
(* Claims about concurrent calls.                                          *)
(***************************************************************************)
\* C35: every assembled reading has its six values sampled under one mode,
\* the one in its mode field, also while set_simulation_mode is called by
\* another thread.
C35_ReadingModeConsistent ==
    reading_modes.simulation_mode_used # "none" =>
        \A i \in 1..Len(reading_modes.sampled) :
            reading_modes.sampled[i] = reading_modes.simulation_mode_used

\* C36: the latest reading never goes backwards: a call of
\* get_most_recent_vital_signs that follows one which returned reading R
\* does not return a reading created before R (readings are numbered in the
\* order of their creation).
C36_LatestNeverGoesBack ==
    [][(/\ lastCall.op = "get_latest" /\ lastCall.arg # 0
        /\ lastCall'.op = "get_latest" /\ lastCall'.arg # 0) =>
            lastCall'.arg >= lastCall.arg]_vars

Occurrences(q, s) == Cardinality({i \in 1..Len(q) : q[i] = s})

Position(q, s) == CHOOSE i \in 1..Len(q) : q[i] = s

\* The sinks with one registration that stayed in the list from the
\* beginning of thread t's generate call until now.
StayedRegistered(t) ==
    {s \in Sinks : /\ Occurrences(call_sinks[t].entry, s) = 1
                   /\ s \notin call_sinks[t].removed
                   /\ Occurrences(callbacks, s) = 1}

\* C37: when a generate call returns, every sink that stayed registered
\* during the whole call has been invoked exactly once with its reading, and
\* two such sinks in the order of their registration, also when other sinks
\* are added or removed while the notification iterates.
C37_StayingSinkInvokedOnce ==
    [][\A t \in Threads :
          (pc[t] = "notify" /\ pc'[t] = AfterNotify(t)) =>
              /\ \A s \in StayedRegistered(t) : Occurrences(invoked[t], s) = 1
              /\ \A s1, s2 \in StayedRegistered(t) :
                    (/\ Occurrences(invoked[t], s1) = 1
                     /\ Occurrences(invoked[t], s2) = 1
                     /\ Position(call_sinks[t].entry, s1)
                            < Position(call_sinks[t].entry, s2)) =>
                        Position(invoked[t], s1) < Position(invoked[t], s2)]_vars

\* C38: after stop() has returned True and with no later start(), the loop
\* begins at most one further generation cycle.
C38_AtMostOneCycleAfterStop ==
    after_stop.stopped => after_stop.cycles <= 1

(***************************************************************************)
(* Claims about the body sent to the rule engine.                          *)
(***************************************************************************)
\* C39: the body submit_vital_signs_for_rule_evaluation posts is the
\* rule-engine payload it built: it has the keys submission_source,
\* requires_immediate_processing and data_quality_indicators, and
\* requires_immediate_processing is the urgency flag of the reading.
C39_PostsRuleEnginePayload ==
    submission.submitted =>
        /\ submission.body = submission.built
        /\ {"submission_source", "requires_immediate_processing",
            "data_quality_indicators"} \subseteq submission.body.keys
        /\ submission.body.requires_immediate_processing
              = JsonBoolean(determine_urgency_level(urgency.reading))

====
